---------------------------- MODULE Spec2Model ----------------------------
(***************************************************************************)
(* A model of the stock-data service of trading-Strategy-Automation-Django *)
(* (stock_data/services.py, stock_data/views.py,                           *)
(* stock_data/strategy_service.py).                                        *)
(*                                                                         *)
(* The specifications of the module:                                       *)
(*   SpecPlanner  - the pure date chunk planner calculate_date_chunks;     *)
(*   SpecFetch    - one fetch request from its entry point to its answer;  *)
(*   SpecStrategy - the bar-by-bar walk of implement_strategy;             *)
(*   SpecBacktest - the pure evaluator backtest_strategy;                  *)
(*   SpecStore    - requests with the same parameters, one after another,  *)
(*                  and the artifacts they leave in data_storage;          *)
(*   SpecRun      - calls of run_strategy_on_file, one after another, and  *)
(*                  the rows they leave in the database;                   *)
(*   SpecAgain    - fetch_historical_data_smart called twice with the same *)
(*                  arguments;                                             *)
(*   SpecRefresh  - two KiteDataService objects checking and renewing the  *)
(*                  token of the one stored credential row;                *)
(*   SpecForm     - a fetch form bound to data and validated, by the test  *)
(*                  scripts (DataFetchForm) or by the index view           *)
(*                  (StockDataFetchForm), which goes on to the fetch;      *)
(*   SpecList     - one call of list_available_data_files over a storage   *)
(*                  directory of good and bad files;                       *)
(*   SpecAhead    - resample_data and implement_strategy run on two base   *)
(*                  series that agree up to the end of a bar;              *)
(*   SpecSample   - one call of _generate_sample_data, pass by pass of its *)
(*                  while loop, with its random draws.                     *)
(*                                                                         *)
(* Calendar dates are day numbers (integers); day d falls on weekday       *)
(* d % 7 with 0 = Monday, as datetime.weekday() counts.  timedelta(days=n) *)
(* is the integer n and (a - b).days is a - b.                             *)
(***************************************************************************)
EXTENDS Integers, Sequences, FiniteSets, TLC

VARIABLES
    \* ---- SpecPlanner: one call of calculate_date_chunks
    p_pc, p_from, p_to, p_interval, p_chunks,
    \* ---- SpecFetch: one fetch request
    f_pc,          \* where the request is: idle, combine_loop, chunked_except,
                   \* batch_loop, single, returned, done
    f_req,         \* entry point and parameters of the request
    f_cred,        \* the stored APICredentials row (shared credential record)
    f_cred0,       \* f_cred as it was when the request was submitted
    f_chunks,      \* date_chunks of the running loop
    f_idx,         \* index of the next chunk of the running loop
    f_all_data,    \* all_data of the running loop
    f_log,         \* every fetch_historical_data call made, in order
    f_refreshes,   \* calls of kite.renew_access_token made
    f_combine,     \* how fetch_and_combine_data ended
    f_result,      \* what fetch_historical_data_smart gave its caller
    f_response,    \* what the entry point answered
    f_files,       \* artifacts in data_storage
    \* ---- SpecStrategy: one call of implement_strategy
    s_pc,          \* idle, loop (at the head of the for loop), decide (past
                   \* the candle lookup of a pass), done
    df_close,      \* df_15m["close"], a function of the bar number; of the
                   \* bars read, the rows a later comparison can still read
    s_i,           \* the loop variable i of `for i in range(5, len(df_15m))`
    in_trade,      \* the local in_trade
    has_1h,        \* df_1h holds a candle at or before the last bar read
    has_1d,        \* df_1d holds a candle at or before the last bar read
    step,          \* what the pass under way has read of bar i
    Signal_Type,   \* df_15m["Signal_Type"] of the bar last passed
    Signal_Price,  \* df_15m["Signal_Price"] of the bar last passed
    Signal_Confidence, \* df_15m["Signal_Confidence"] of that bar, in tenths
    buy_signals,   \* rows of df_15m with Signal = 1 so far
    sell_signals,  \* rows of df_15m with Signal = -1 so far
    \* ---- SpecBacktest: one call of backtest_strategy
    bt_pc,         \* idle, call, returned
    bt_df,         \* the frame passed: rows of close and Signal
    bt_results,    \* the dict returned
    \* ---- SpecStore: a sequence of fetch requests with the same parameters
    st_pc,         \* idle, fetching, saving
    st_req,        \* the request being handled
    st_files,      \* the file names in data_storage
    st_now,        \* datetime.now(), in whole seconds
    st_requests,   \* requests submitted
    st_fetches,    \* calls of fetch_historical_data_smart
    st_saves,      \* calls of save_data_to_json that returned
    st_answer,     \* what the last request was answered
    \* ---- SpecRun: calls of run_strategy_on_file, one after another
    db_strategies, \* the names of the TradingStrategy rows
    db_signals,    \* the TradingSignal rows, in order of insertion
    db_backtests,  \* the StrategyBacktest rows, in order of insertion
    r_log,         \* the calls made, in order: the arguments of each and
                   \* the dict it returned
    \* ---- SpecAgain: fetch_historical_data_smart called twice with the same
    \* arguments; the call under way is in the variables of SpecFetch
    a_run,         \* calls started
    a_req,         \* the arguments of the calls
    a_first,       \* what the first call gave its caller
    a_log,         \* the fetch_historical_data calls of the first call
    \* ---- SpecRefresh: two KiteDataService objects on one credential row
    k_pc,          \* where each service is
    k_credentials, \* self.credentials of each service: its copy of the row
    k_session,     \* the token kite.renew_access_token gave each service
    k_row,         \* the stored APICredentials row
    k_issued,      \* tokens the upstream API has issued
    k_now,         \* timezone.now(), in hours
    \* ---- SpecForm: one bound fetch form and its validation
    m_pc,          \* bound, cleaned
    m_data,        \* the form class and the data it was bound to
    m_valid,       \* what is_valid() returned
    \* ---- SpecList: one call of list_available_data_files
    l_pc,          \* loop, sort, done
    l_dir,         \* os.listdir(self.data_dir), in the order it gives
    l_idx,         \* the entry the for loop is at
    l_files,       \* the local list files
    l_out,         \* how the call ended
    \* ---- SpecAhead: the strategy run on two base series that agree up to
    \* a bar
    h_base,        \* the two frames load_data_from_json gave
    h_hist,        \* MACD_Histogram of the bars both frames hold alike
    h_agree,       \* the last 15-minute bar the frames agree up to
    h_signals,     \* the Signal column of each frame, once it was run
    \* ---- SpecSample: one call of _generate_sample_data
    g_pc,          \* idle, loop (at the head of the while loop), done
    g_args,        \* from_date, to_date, interval
    g_current,     \* current_date: its day and its minute of the day
    g_count,       \* record_count, which is len(sample_data) as well
    g_base,        \* base_price, in thousandths
    g_record       \* the record the last pass appended to sample_data

varsP == <<p_pc, p_from, p_to, p_interval, p_chunks>>
varsF == <<f_pc, f_req, f_cred, f_cred0, f_chunks, f_idx, f_all_data, f_log,
           f_refreshes, f_combine, f_result, f_response, f_files>>
varsS == <<s_pc, df_close, s_i, in_trade, has_1h, has_1d, step, Signal_Type,
           Signal_Price, Signal_Confidence, buy_signals, sell_signals>>
varsB == <<bt_pc, bt_df, bt_results>>
varsT == <<st_pc, st_req, st_files, st_now, st_requests, st_fetches, st_saves,
           st_answer>>
varsR == <<db_strategies, db_signals, db_backtests, r_log>>
varsA == <<a_run, a_req, a_first, a_log>>
varsK == <<k_pc, k_credentials, k_session, k_row, k_issued, k_now>>
varsM == <<m_pc, m_data, m_valid>>
varsL == <<l_pc, l_dir, l_idx, l_files, l_out>>
varsH == <<h_base, h_hist, h_agree, h_signals>>
varsG == <<g_pc, g_args, g_current, g_count, g_base, g_record>>
vars == <<varsP, varsF, varsS, varsB, varsT, varsR, varsA, varsK, varsM, varsL, varsH, varsG>>

\* the variables of the other specifications
varsBesideP ==
    <<varsF, varsS, varsB, varsT, varsR, varsA, varsK, varsM, varsL, varsH, varsG>>
varsBesideF ==
    <<varsP, varsS, varsB, varsT, varsR, varsA, varsK, varsM, varsL, varsH, varsG>>
varsBesideS ==
    <<varsP, varsF, varsB, varsT, varsR, varsA, varsK, varsM, varsL, varsH, varsG>>
varsBesideB ==
    <<varsP, varsF, varsS, varsT, varsR, varsA, varsK, varsM, varsL, varsH, varsG>>
varsBesideT ==
    <<varsP, varsF, varsS, varsB, varsR, varsA, varsK, varsM, varsL, varsH, varsG>>
varsBesideR ==
    <<varsP, varsF, varsS, varsB, varsT, varsA, varsK, varsM, varsL, varsH, varsG>>
\* SpecAgain moves the variables of SpecFetch as well as its own
varsBesideA == <<varsP, varsS, varsB, varsT, varsR, varsK, varsM, varsL, varsH, varsG>>
varsBesideK == <<varsP, varsF, varsS, varsB, varsT, varsR, varsA, varsM, varsL, varsH, varsG>>
varsBesideM ==
    <<varsP, varsS, varsB, varsT, varsR, varsA, varsK, varsL, varsH, varsG>>
varsBesideL ==
    <<varsP, varsF, varsS, varsB, varsT, varsR, varsA, varsK, varsM, varsH, varsG>>
varsBesideH ==
    <<varsP, varsF, varsS, varsB, varsT, varsR, varsA, varsK, varsM, varsL, varsG>>
varsBesideG ==
    <<varsP, varsF, varsS, varsB, varsT, varsR, varsA, varsK, varsM, varsL, varsH>>

\* ------------------------------------------------------------------ bounds
\* from_date of a planner call ranges over 0..MaxFrom
MaxFrom == 1
\* spans 0..MaxSpan are all tried for every interval
MaxSpan == 125
\* and, for every interval, the spans around q whole chunks, q <= MaxChunks
MaxChunks == 2
\* ... each of them up to MaxSlack days shorter or longer
MaxSlack == 1
\* a 15-minute frame has at most MaxBars bars
MaxBars == 8
\* prices are 1..MaxPrice
MaxPrice == 2

Min(a, b) == IF a <= b THEN a ELSE b

\* ------------------------------------------------- Interval Limit Table
KITE_LIMITS ==
    ("minute" :> 60) @@ ("3minute" :> 100) @@ ("5minute" :> 100) @@
    ("10minute" :> 100) @@ ("15minute" :> 200) @@ ("30minute" :> 200) @@
    ("60minute" :> 400) @@ ("hour" :> 400) @@ ("day" :> 2000) @@
    ("daily" :> 2000)

\* the limit of daily data, given to every interval
daily_limit(interval) == 2000

\* KITE_LIMITS.get(interval, 60)
limit_days(interval) ==
    IF interval \in DOMAIN KITE_LIMITS THEN KITE_LIMITS[interval] ELSE 60

\* an interval name that is no key of KITE_LIMITS
UnknownInterval == "week"

AllIntervals == DOMAIN KITE_LIMITS \cup {UnknownInterval}

\* ------------------------------------------------- Date Chunk Planner
\* a loop whose next chunk starts on the day the last one ended
RECURSIVE chunk_loop_overlapping(_, _, _, _)
chunk_loop_overlapping(chunks, current_start, to_date, limit) ==
    IF current_start < to_date
    THEN LET current_end == Min(current_start + limit, to_date)
         IN  chunk_loop_overlapping(Append(chunks, <<current_start, current_end>>),
                                    current_end, to_date, limit)
    ELSE chunks

\* the while loop of calculate_date_chunks: chunks so far, current_start
RECURSIVE chunk_loop(_, _, _, _)
chunk_loop(chunks, current_start, to_date, limit) ==
    IF current_start < to_date
    THEN LET current_end == Min(current_start + limit, to_date)
         IN  chunk_loop(Append(chunks, <<current_start, current_end>>),
                        current_end + 1, to_date, limit)
    ELSE chunks

\* a planner that runs the loop for every range, short ones too
plan_by_loop_only(from_date, to_date, interval) ==
    chunk_loop(<< >>, from_date, to_date, limit_days(interval))

calculate_date_chunks(from_date, to_date, interval) ==
    LET limit == limit_days(interval)
        total_days == to_date - from_date
    IN  IF total_days <= limit
        THEN << <<from_date, to_date>> >>
        ELSE chunk_loop(<< >>, from_date, to_date, limit)

\* an estimate that divides the span by the limit instead of planning
estimate_by_division(from_date, to_date, interval) ==
    LET total_days == to_date - from_date
        limit == limit_days(interval)
    IN  [ total_days |-> total_days,
          limit_days |-> limit,
          chunks_needed |->
              IF total_days <= limit THEN 1
              ELSE (total_days + (limit - 1)) \div limit,
          within_single_call |-> total_days <= limit,
          requires_chunking |-> total_days > limit ]

\* estimate_api_calls: the fields the callers read
estimate_api_calls(from_date, to_date, interval) ==
    LET total_days == to_date - from_date
        limit == limit_days(interval)
    IN  [ total_days |-> total_days,
          limit_days |-> limit,
          chunks_needed |->
              IF total_days <= limit THEN 1
              ELSE Len(calculate_date_chunks(from_date, to_date, interval)),
          within_single_call |-> total_days <= limit,
          requires_chunking |-> total_days > limit ]

\* ------------------------------------------------- records
\* One OHLCV record as the reconciler reads it: its 'date' key, a value
\* standing for its prices, and where it came from (the upstream API or
\* _generate_sample_data).  src is bookkeeping: the code keeps no such field.
Row(date, close, src) == [date |-> date, close |-> close, src |-> src]

Dates(rows) == {rows[k].date : k \in 1..Len(rows)}

\* --------------------------------------- _generate_sample_data, by day
\* The generator is followed day by day: the result holds one record for
\* each calendar day on which the generator emits at least one record (the
\* first record of that day).  from_date and to_date are at midnight, as
\* datetime.strptime(..., "%Y-%m-%d") and the planner give them.
IsWeekday(d) == d % 7 < 5

\* intervals of the trading-hours check
IntradayIntervals ==
    {"minute", "3minute", "5minute", "15minute", "30minute", "60minute"}

\* delta in minutes of an intraday interval
delta_minutes ==
    ("minute" :> 1) @@ ("3minute" :> 3) @@ ("5minute" :> 5) @@
    ("15minute" :> 15) @@ ("30minute" :> 30) @@ ("60minute" :> 60)

\* records_per_day: max_records = trading_days * records_per_day
records_per_day ==
    ("minute" :> 375) @@ ("3minute" :> 125) @@ ("5minute" :> 75) @@
    ("15minute" :> 25) @@ ("30minute" :> 13) @@ ("60minute" :> 6)

\* the trading window 9:15 .. 15:30 in minutes of the day
start_time_minutes == 9 * 60 + 15
end_time_minutes == 15 * 60 + 30

\* records one whole trading day yields: 9:15, 9:15 + delta, ... <= 15:30
slots_per_day(interval) ==
    ((end_time_minutes - start_time_minutes) \div delta_minutes[interval]) + 1

trading_days(from_date, to_date) ==
    Cardinality({d \in from_date..to_date : IsWeekday(d)})

sample_max_records(from_date, to_date, interval) ==
    IF interval \in IntradayIntervals
    THEN trading_days(from_date, to_date) * records_per_day[interval]
    ELSE (to_date - from_date) + 1

\* The days the generator's while loop gives a record.  The loop walks
\* current_date from from_date at 00:00 while current_date <= to_date and
\* record_count < max_records:
\*  - interval != "day" skips Saturdays and Sundays;
\*  - an intraday interval moves a current_date before 9:15 to 9:15 and emits,
\*    steps by delta until after 15:30, then jumps to 9:15 of the next day:
\*    a weekday before to_date yields slots_per_day records, and to_date
\*    itself (00:00) is passed only by a current_date still at midnight,
\*    i.e. when no weekday came before it, and then yields one record;
\*  - any other interval steps by one day and emits one record per day.
\* A day gets a record iff record_count on reaching it is below max_records.
sample_days(from_date, to_date, interval) ==
    LET max_records == sample_max_records(from_date, to_date, interval)
        full == {d \in from_date..(to_date - 1) : IsWeekday(d)}
        eligible ==
            IF interval \in IntradayIntervals
            THEN IF full # {} THEN full
                 ELSE {d \in from_date..to_date : d = to_date /\ IsWeekday(d)}
            ELSE {d \in from_date..to_date : interval = "day" \/ IsWeekday(d)}
        per_day ==
            IF interval \in IntradayIntervals THEN slots_per_day(interval) ELSE 1
    IN  {d \in eligible :
            per_day * Cardinality({x \in eligible : x < d}) < max_records}

generate_sample_data(from_date, to_date, interval) ==
    LET days == sample_days(from_date, to_date, interval)
        calendar == [k \in 1..((to_date - from_date) + 1) |-> from_date + (k - 1)]
        emitted == SelectSeq(calendar, LAMBDA d : d \in days)
    IN  [k \in 1..Len(emitted) |-> Row(emitted[k], 0, "sample")]

\* ------------------------------------------------- deduplicate and sort
\* a reconciler that keeps every record it was given
keep_duplicates(rows) == rows

\* first-seen-wins: drop_duplicates(subset=['date']) / the seen_dates loop.
\* The rows are split in two halves: the second half loses the dates the
\* first half holds.
RECURSIVE drop_duplicates(_)
drop_duplicates(rows) ==
    IF Len(rows) <= 1 THEN rows
    ELSE LET half == Len(rows) \div 2
             first == drop_duplicates(SubSeq(rows, 1, half))
             seen == Dates(first)
             rest == drop_duplicates(SubSeq(rows, half + 1, Len(rows)))
         IN  first \o SelectSeq(rest, LAMBDA r : r.date \notin seen)

\* sort_values('date') / sorted(key=date) / list.sort(key=date), a stable
\* sort: the rows before, at and after the date of the middle row, each part
\* in its order of arrival
RECURSIVE sort_by_date(_)
sort_by_date(rows) ==
    IF Len(rows) <= 1 THEN rows
    ELSE LET pivot == rows[(Len(rows) + 1) \div 2].date
         IN  sort_by_date(SelectSeq(rows, LAMBDA r : r.date < pivot))
             \o SelectSeq(rows, LAMBDA r : r.date = pivot)
             \o sort_by_date(SelectSeq(rows, LAMBDA r : r.date > pivot))

\* ------------------------------------------------- credentials
\* The APICredentials row as the service reads it.  present: a row exists;
\* access_token, refresh_token: the field is non-empty; token_valid:
\* is_token_valid(), i.e. timezone.now() < token_expires_at.
Cred(present, authenticated, access, valid, refresh) ==
    [ present |-> present, is_authenticated |-> authenticated,
      access_token |-> access, token_valid |-> valid,
      refresh_token |-> refresh ]

\* no row; a row never authenticated; a live session; an expired session
\* with and without a held refresh token
CredStates ==
    { Cred(FALSE, FALSE, FALSE, FALSE, FALSE),
      Cred(TRUE, FALSE, FALSE, FALSE, FALSE),
      Cred(TRUE, TRUE, TRUE, TRUE, TRUE),
      Cred(TRUE, TRUE, TRUE, FALSE, TRUE),
      Cred(TRUE, TRUE, TRUE, FALSE, FALSE) }

\* refresh_access_token: without a refresh token no upstream call is made;
\* otherwise kite.renew_access_token is called once and succeeds or raises.
refresh_access_token(cred) ==
    IF ~cred.refresh_token
    THEN { [ok |-> FALSE, cred |-> cred, refreshes |-> 0] }
    ELSE { [ok |-> TRUE,
            cred |-> [cred EXCEPT !.access_token = TRUE, !.token_valid = TRUE],
            refreshes |-> 1],
           [ok |-> FALSE, cred |-> cred, refreshes |-> 1] }

is_authenticated(cred) ==
    IF ~cred.present
    THEN { [ok |-> FALSE, cred |-> cred, refreshes |-> 0] }
    ELSE IF ~cred.is_authenticated \/ ~cred.access_token
    THEN { [ok |-> FALSE, cred |-> cred, refreshes |-> 0] }
    ELSE IF ~cred.token_valid
    THEN refresh_access_token(cred)
    ELSE { [ok |-> TRUE, cred |-> cred, refreshes |-> 0] }

\* ------------------------------------------------- the upstream API
\* What kite.historical_data may answer for the range [s, e]: one record;
\* two records with one timestamp; two records out of order; a record dated
\* the day before s (the end day of the chunk before); nothing; or it raises.
UpstreamData(s, e) ==
    { << Row(s, 1, "api") >>,
      << Row(s, 1, "api"), Row(s, 2, "api") >>,
      << Row(e, 1, "api"), Row(s, 2, "api") >>,
      << Row(s - 1, 3, "api") >> }

\* _generate_sample_data(from_date, to_date, interval) as called by
\* fetch_historical_data.  date_objects: the dates are datetime.date values;
\* then from_date.date() in the generator's log line raises AttributeError,
\* in the try block and again in the except handler, and the call raises.
sample_or_raise(from_date, to_date, interval, date_objects) ==
    IF date_objects
    THEN [raised |-> TRUE, rows |-> << >>]
    ELSE [raised |-> FALSE,
          rows |-> generate_sample_data(from_date, to_date, interval)]

\* fetch_historical_data: every way one call can go.  upstream: what
\* kite.historical_data did ("none": it was not called).
fetch_historical_data(cred, from_date, to_date, interval, date_objects) ==
    LET sample == sample_or_raise(from_date, to_date, interval, date_objects)
        Out(a, upstream, ret) ==
            [ cred |-> a.cred, refreshes |-> a.refreshes, upstream |-> upstream,
              raised |-> ret.raised, rows |-> ret.rows ]
    IN  UNION { IF ~a.ok
                THEN { Out(a, "none", sample) }
                ELSE { Out(a, "data", [raised |-> FALSE, rows |-> d]) :
                          d \in UpstreamData(from_date, to_date) }
                     \cup { Out(a, "empty", sample), Out(a, "raise", sample) }
              : a \in is_authenticated(cred) }

\* ------------------------------------------------- requests
TRADING_SYMBOLS == {"RELIANCE"}
UnknownSymbol == "BOGUS"

\* date.today() as a day number
Today == 100

Request(entry, symbol, from_date, to_date, interval, date_objects) ==
    [ entry |-> entry, symbol |-> symbol, from_date |-> from_date,
      to_date |-> to_date, interval |-> interval,
      date_objects |-> date_objects ]

\* StockDataFetchForm: the choices of its fields and clean()
FormIntervals ==
    {"minute", "3minute", "5minute", "15minute", "30minute", "60minute", "day"}

\* a form whose only cap on the range is the year
valid_within_a_year(req) ==
    /\ req.symbol \in TRADING_SYMBOLS
    /\ req.interval \in FormIntervals
    /\ ~(req.from_date > req.to_date)
    /\ ~(req.to_date > Today)
    /\ ~(req.to_date - req.from_date > 365)

StockDataFetchForm_is_valid(req) ==
    LET days == req.to_date - req.from_date
        i == req.interval
    IN  /\ req.symbol \in TRADING_SYMBOLS
        /\ i \in FormIntervals
        /\ ~(req.from_date > req.to_date)
        /\ ~(req.to_date > Today)
        /\ ~ IF i = "minute" /\ days > 60 THEN TRUE
             ELSE IF i \in {"3minute", "5minute"} /\ days > 100 THEN TRUE
             ELSE IF i \in {"15minute", "30minute"} /\ days > 200 THEN TRUE
             ELSE IF i = "60minute" /\ days > 400 THEN TRUE
             ELSE days > 365

\* DataFetchRequest.INTERVAL_CHOICES, the choices of DataFetchForm.interval
INTERVAL_CHOICES ==
    {"minute", "day", "5minute", "15minute", "30minute", "60minute"}

\* DataFetchForm: the choices of its fields and clean()
DataFetchForm_is_valid(req) ==
    /\ req.symbol \in TRADING_SYMBOLS
    /\ req.interval \in INTERVAL_CHOICES
    /\ ~(req.from_date > req.to_date)
    /\ ~(req.to_date > Today)
    /\ ~(req.interval = "minute" /\ req.to_date - req.from_date > 60)

\* get_json_filename: the legacy name load_data_from_json looks for
get_json_filename(req) ==
    [ scheme |-> "legacy", symbol |-> req.symbol, from_date |-> req.from_date,
      to_date |-> req.to_date, interval |-> req.interval ]

\* the name save_data_to_json (the second definition, the one in effect) writes
timestamped_filename(req) ==
    [ scheme |-> "timestamped", symbol |-> req.symbol,
      from_date |-> req.from_date, to_date |-> req.to_date,
      interval |-> req.interval ]

\* load_data_from_json: os.path.exists(filepath)
load_data_from_json(files, req) == get_json_filename(req) \in files

\* ------------------------------------------------- idle values
NoResult == [status |-> "none", error |-> "", series |-> << >>]
NoResponse == [status |-> "none", saved |-> FALSE]
NoRequest == Request("none", "", 0, 0, "", FALSE)

\* the planner at rest
PlannerIdle ==
    /\ p_pc = "idle"
    /\ p_from = 0
    /\ p_to = 0
    /\ p_interval = ""
    /\ p_chunks = << >>

\* no request submitted yet, with the credential row `cred`
FetchAtRest(cred) ==
    /\ f_pc = "idle"
    /\ f_req = NoRequest
    /\ f_cred = cred
    /\ f_cred0 = cred
    /\ f_chunks = << >>
    /\ f_idx = 1
    /\ f_all_data = << >>
    /\ f_log = << >>
    /\ f_refreshes = 0
    /\ f_combine = NoResult
    /\ f_result = NoResult
    /\ f_response = NoResponse
    /\ f_files = {}

FetchIdle == FetchAtRest(Cred(FALSE, FALSE, FALSE, FALSE, FALSE))

\* the frame holds no candle at or before the bar: .iloc[-1] raises IndexError
NoCandle == [open |-> 0, close |-> 0]

\* no pass is under way
NoStep == [ open |-> 0, MACD_Histogram |-> 0, current_1h_candle |-> NoCandle,
            current_1d_candle |-> NoCandle ]

\* implement_strategy not called
StrategyIdle ==
    /\ s_pc = "idle"
    /\ df_close = << >>
    /\ s_i = 0
    /\ in_trade = FALSE
    /\ has_1h = FALSE
    /\ has_1d = FALSE
    /\ step = NoStep
    /\ Signal_Type = ""
    /\ Signal_Price = 0
    /\ Signal_Confidence = 0
    /\ buy_signals = 0
    /\ sell_signals = 0

\* backtest_strategy not called
NoBacktest == [status |-> "none"]

BacktestIdle ==
    /\ bt_pc = "idle"
    /\ bt_df = << >>
    /\ bt_results = NoBacktest

\* data_storage as os.makedirs leaves it, no request submitted
StoreIdle ==
    /\ st_pc = "idle"
    /\ st_req = NoRequest
    /\ st_files = {}
    /\ st_now = 0
    /\ st_requests = 0
    /\ st_fetches = 0
    /\ st_saves = 0
    /\ st_answer = "none"

\* the tables after the migrations, no strategy run yet
RunIdle ==
    /\ db_strategies = {}
    /\ db_signals = << >>
    /\ db_backtests = << >>
    /\ r_log = << >>

\* fetch_historical_data_smart not called
AgainIdle ==
    /\ a_run = 0
    /\ a_req = NoRequest
    /\ a_first = NoResult
    /\ a_log = << >>

\* no service constructed
NoCredentials ==
    [ is_authenticated |-> FALSE, access_token |-> 0, token_held |-> FALSE,
      refresh_token |-> FALSE, token_expires_at |-> 0 ]

RefreshIdle ==
    /\ k_pc = << >>
    /\ k_credentials = << >>
    /\ k_session = << >>
    /\ k_row = NoCredentials
    /\ k_issued = 0
    /\ k_now = 0

\* no form bound
FormIdle ==
    /\ m_pc = "idle"
    /\ m_data = [form |-> "", request |-> NoRequest]
    /\ m_valid = FALSE

\* list_available_data_files not called
NoListing == [status |-> "none", files |-> << >>]

ListIdle ==
    /\ l_pc = "idle"
    /\ l_dir = << >>
    /\ l_idx = 1
    /\ l_files = << >>
    /\ l_out = NoListing

\* no frame loaded
AheadIdle ==
    /\ h_base = << >>
    /\ h_hist = << >>
    /\ h_agree = 0
    /\ h_signals = << >>

\* no generator call
NoRecord == [date |-> << >>]
SampleIdle ==
    /\ g_pc = "idle"
    /\ g_args = << >>
    /\ g_current = << >>
    /\ g_count = 0
    /\ g_base = 0
    /\ g_record = NoRecord

\* the other specifications at rest
IdleBesideP ==
    /\ FetchIdle
    /\ StrategyIdle
    /\ BacktestIdle
    /\ StoreIdle
    /\ RunIdle
    /\ AgainIdle
    /\ RefreshIdle
    /\ FormIdle
    /\ ListIdle
    /\ AheadIdle
    /\ SampleIdle
IdleBesideF ==
    /\ PlannerIdle
    /\ StrategyIdle
    /\ BacktestIdle
    /\ StoreIdle
    /\ RunIdle
    /\ AgainIdle
    /\ RefreshIdle
    /\ FormIdle
    /\ ListIdle
    /\ AheadIdle
    /\ SampleIdle
IdleBesideS ==
    /\ PlannerIdle
    /\ FetchIdle
    /\ BacktestIdle
    /\ StoreIdle
    /\ RunIdle
    /\ AgainIdle
    /\ RefreshIdle
    /\ FormIdle
    /\ ListIdle
    /\ AheadIdle
    /\ SampleIdle
IdleBesideB ==
    /\ PlannerIdle
    /\ FetchIdle
    /\ StrategyIdle
    /\ StoreIdle
    /\ RunIdle
    /\ AgainIdle
    /\ RefreshIdle
    /\ FormIdle
    /\ ListIdle
    /\ AheadIdle
    /\ SampleIdle
IdleBesideT ==
    /\ PlannerIdle
    /\ FetchIdle
    /\ StrategyIdle
    /\ BacktestIdle
    /\ RunIdle
    /\ AgainIdle
    /\ RefreshIdle
    /\ FormIdle
    /\ ListIdle
    /\ AheadIdle
    /\ SampleIdle
IdleBesideR ==
    /\ PlannerIdle
    /\ FetchIdle
    /\ StrategyIdle
    /\ BacktestIdle
    /\ StoreIdle
    /\ AgainIdle
    /\ RefreshIdle
    /\ FormIdle
    /\ ListIdle
    /\ AheadIdle
    /\ SampleIdle
IdleBesideA ==
    /\ PlannerIdle
    /\ StrategyIdle
    /\ BacktestIdle
    /\ StoreIdle
    /\ RunIdle
    /\ RefreshIdle
    /\ FormIdle
    /\ ListIdle
    /\ AheadIdle
    /\ SampleIdle
IdleBesideK ==
    /\ PlannerIdle
    /\ FetchIdle
    /\ StrategyIdle
    /\ BacktestIdle
    /\ StoreIdle
    /\ RunIdle
    /\ AgainIdle
    /\ FormIdle
    /\ ListIdle
    /\ AheadIdle
    /\ SampleIdle
IdleBesideM ==
    /\ PlannerIdle
    /\ StrategyIdle
    /\ BacktestIdle
    /\ StoreIdle
    /\ RunIdle
    /\ AgainIdle
    /\ RefreshIdle
    /\ ListIdle
    /\ AheadIdle
    /\ SampleIdle
IdleBesideL ==
    /\ PlannerIdle
    /\ FetchIdle
    /\ StrategyIdle
    /\ BacktestIdle
    /\ StoreIdle
    /\ RunIdle
    /\ AgainIdle
    /\ RefreshIdle
    /\ FormIdle
    /\ AheadIdle
    /\ SampleIdle
IdleBesideH ==
    /\ PlannerIdle
    /\ FetchIdle
    /\ StrategyIdle
    /\ BacktestIdle
    /\ StoreIdle
    /\ RunIdle
    /\ AgainIdle
    /\ RefreshIdle
    /\ FormIdle
    /\ ListIdle
    /\ SampleIdle
IdleBesideG ==
    /\ PlannerIdle
    /\ FetchIdle
    /\ StrategyIdle
    /\ BacktestIdle
    /\ StoreIdle
    /\ RunIdle
    /\ AgainIdle
    /\ RefreshIdle
    /\ FormIdle
    /\ ListIdle
    /\ AheadIdle

\* ------------------------------------------------- SpecPlanner
\* 2021-01-01 .. 2024-01-01, the '3 years of daily data' of the test script
ThreeYears == 1095

\* The spans tried for an interval: every short span, and the spans at and
\* next to q whole chunks of limit + 1 days.
PlannerSpans(interval) ==
    (0..MaxSpan) \cup {ThreeYears} \cup
    { s \in { q * (limit_days(interval) + 1) + r :
                q \in 1..MaxChunks, r \in (0 - MaxSlack)..MaxSlack } : s >= 0 }

PlannerInit ==
    /\ p_pc = "call"
    /\ p_from \in 0..MaxFrom
    /\ p_interval \in AllIntervals
    /\ \E s \in PlannerSpans(p_interval) : p_to = p_from + s
    /\ p_chunks = << >>
    /\ IdleBesideP

\* chunks = calculate_date_chunks(from_date, to_date, interval)
Plan ==
    /\ p_pc = "call"
    /\ p_chunks' = calculate_date_chunks(p_from, p_to, p_interval)
    /\ p_pc' = "planned"
    /\ UNCHANGED <<p_from, p_to, p_interval>>
    /\ UNCHANGED varsBesideP

PlannerNext == Plan

SpecPlanner == PlannerInit /\ [][PlannerNext]_vars

\* ------------------------------------------------- SpecFetch
\* from_date of a request is day 0, a Monday; its span is -1 (from > to), 0,
\* or at and next to q whole chunks of the smallest limit.
FetchSpans ==
    {0 - 1, 0} \cup
    { q * (limit_days("minute") + 1) + r :
        q \in 1..MaxChunks, r \in (0 - MaxSlack)..MaxSlack }

FetchIntervals == {"minute", "day", UnknownInterval}

\* Programmatic callers may pass datetime.date values; the views pass strings.
Requests(entry) ==
    { Request(entry, sym, 0, sp, i, d) :
        sym \in TRADING_SYMBOLS \cup {UnknownSymbol}, sp \in FetchSpans,
        i \in FetchIntervals,
        d \in IF entry = "smart" THEN BOOLEAN ELSE {FALSE} }

FetchInit ==
    /\ \E cred \in CredStates : FetchAtRest(cred)
    /\ IdleBesideF

\* fetch_historical_data_smart(symbol, from_date, to_date, interval), up to
\* the first chunk fetch: the estimate, the routing, the symbol lookup and
\* the planning.
Smart(req) ==
    LET estimation == estimate_api_calls(req.from_date, req.to_date, req.interval)
    IN  IF estimation.requires_chunking
        THEN \* fetch_historical_data_chunked -> fetch_and_combine_data
             IF req.symbol \notin TRADING_SYMBOLS
             THEN /\ f_combine' = [status |-> "raised", error |-> "symbol",
                                   series |-> << >>]
                  /\ f_pc' = "chunked_except"
                  /\ UNCHANGED <<f_chunks, f_result>>
             ELSE /\ f_chunks' = calculate_date_chunks(req.from_date, req.to_date,
                                                       req.interval)
                  /\ f_pc' = "combine_loop"
                  /\ UNCHANGED <<f_combine, f_result>>
        ELSE \* fetch_historical_data_by_symbol, dates as strings
             IF req.symbol \notin TRADING_SYMBOLS
             THEN /\ f_result' = [status |-> "error", error |-> "symbol",
                                  series |-> << >>]
                  /\ f_pc' = "returned"
                  /\ UNCHANGED <<f_chunks, f_combine>>
             ELSE /\ f_pc' = "single"
                  /\ UNCHANGED <<f_chunks, f_combine, f_result>>

\* the entry point answers without calling the service
Answer(status) ==
    /\ f_response' = [status |-> status, saved |-> FALSE]
    /\ f_pc' = "done"
    /\ UNCHANGED <<f_chunks, f_combine, f_result>>

\* views.index, POST: form validation, the authentication flag, the
\* existence check, then fetch_historical_data_smart
SubmitIndex ==
    /\ f_pc = "idle"
    /\ \E req \in Requests("index") :
        /\ f_req' = req
        /\ IF ~StockDataFetchForm_is_valid(req)
           THEN Answer("form_invalid")
           ELSE IF ~f_cred.present \/ ~f_cred.is_authenticated
           THEN Answer("not_authenticated")
           ELSE IF load_data_from_json(f_files, req)
           THEN Answer("exists")
           ELSE Smart(req) /\ UNCHANGED f_response
    /\ UNCHANGED <<f_cred, f_cred0, f_idx, f_all_data, f_log, f_refreshes, f_files>>
    /\ UNCHANGED varsBesideF

\* views.fetch_data_api, POST: the symbol, the authentication flag, the
\* token's validity, the existence check, then fetch_historical_data_smart
SubmitApi ==
    /\ f_pc = "idle"
    /\ \E req \in Requests("api") :
        /\ f_req' = req
        /\ IF ~f_cred.present \/ ~f_cred.is_authenticated
           THEN Answer("401_not_authenticated")
           ELSE IF ~(f_cred.access_token /\ f_cred.token_valid)
           THEN Answer("401_token_expired")
           ELSE IF load_data_from_json(f_files, req)
           THEN Answer("exists")
           ELSE Smart(req) /\ UNCHANGED f_response
    /\ UNCHANGED <<f_cred, f_cred0, f_idx, f_all_data, f_log, f_refreshes, f_files>>
    /\ UNCHANGED varsBesideF

\* a direct call of KiteDataService.fetch_historical_data_smart
CallSmart ==
    /\ f_pc = "idle"
    /\ \E req \in Requests("smart") :
        /\ f_req' = req
        /\ Smart(req)
    /\ UNCHANGED <<f_cred, f_cred0, f_idx, f_all_data, f_log, f_refreshes,
                   f_response, f_files>>
    /\ UNCHANGED varsBesideF

\* one fetch_historical_data call, as the log keeps it
LogEntry(by, chunk, o) ==
    [ by |-> by, range |-> chunk, upstream |-> o.upstream,
      refreshes |-> o.refreshes, raised |-> o.raised, rows |-> o.rows,
      slept |-> by # "single" /\ ~o.raised ]

\* fetch_and_combine_data, one pass of its for loop: fetch the chunk; extend
\* all_data when it has data; on an exception continue; else time.sleep(1)
CombineChunk ==
    /\ f_pc = "combine_loop"
    /\ f_idx <= Len(f_chunks)
    /\ LET chunk == f_chunks[f_idx]
       IN  \E o \in fetch_historical_data(f_cred, chunk[1], chunk[2],
                                          f_req.interval, f_req.date_objects) :
             /\ f_cred' = o.cred
             /\ f_refreshes' = f_refreshes + o.refreshes
             /\ f_log' = Append(f_log, LogEntry("combine", chunk, o))
             /\ f_all_data' = IF ~o.raised /\ o.rows # << >>
                              THEN f_all_data \o o.rows
                              ELSE f_all_data
    /\ f_idx' = f_idx + 1
    /\ UNCHANGED <<f_pc, f_req, f_cred0, f_chunks, f_combine, f_result,
                   f_response, f_files>>
    /\ UNCHANGED varsBesideF

\* fetch_and_combine_data after its loop: raise when all_data is empty, else
\* drop duplicates, sort by date and return (through
\* fetch_historical_data_chunked and fetch_historical_data_smart)
CombineFinish ==
    /\ f_pc = "combine_loop"
    /\ f_idx > Len(f_chunks)
    /\ IF f_all_data = << >>
       THEN /\ f_combine' = [status |-> "raised", error |-> "no_data",
                             series |-> << >>]
            /\ f_pc' = "chunked_except"
            /\ UNCHANGED f_result
       ELSE LET series == sort_by_date(drop_duplicates(f_all_data))
            IN  /\ f_combine' = [status |-> "returned", error |-> "",
                                 series |-> series]
                /\ f_result' = [status |-> "ok", error |-> "", series |-> series]
                /\ f_pc' = "returned"
    /\ UNCHANGED <<f_req, f_cred, f_cred0, f_chunks, f_idx, f_all_data, f_log,
                   f_refreshes, f_response, f_files>>
    /\ UNCHANGED varsBesideF

\* the except branch of fetch_historical_data_chunked: fall back to
\* fetch_historical_data_by_symbol with the dates as strings; the range
\* exceeds the limit, so it goes to fetch_data_in_batches
ChunkedExcept ==
    /\ f_pc = "chunked_except"
    /\ IF f_req.symbol \notin TRADING_SYMBOLS
       THEN /\ f_result' = [status |-> "error", error |-> "symbol",
                            series |-> << >>]
            /\ f_pc' = "returned"
            /\ UNCHANGED <<f_chunks, f_idx, f_all_data>>
       ELSE /\ f_chunks' = calculate_date_chunks(f_req.from_date, f_req.to_date,
                                                 f_req.interval)
            /\ f_idx' = 1
            /\ f_all_data' = << >>
            /\ f_pc' = "batch_loop"
            /\ UNCHANGED f_result
    /\ UNCHANGED <<f_req, f_cred, f_cred0, f_log, f_refreshes, f_combine,
                   f_response, f_files>>
    /\ UNCHANGED varsBesideF

\* fetch_data_in_batches, one pass of its for loop: fetch the chunk, keep the
\* records whose date is not yet in all_data
BatchChunk ==
    /\ f_pc = "batch_loop"
    /\ f_idx <= Len(f_chunks)
    /\ LET chunk == f_chunks[f_idx]
       IN  \E o \in fetch_historical_data(f_cred, chunk[1], chunk[2],
                                          f_req.interval, FALSE) :
             /\ f_cred' = o.cred
             /\ f_refreshes' = f_refreshes + o.refreshes
             /\ f_log' = Append(f_log, LogEntry("batches", chunk, o))
             /\ f_all_data' =
                  IF ~o.raised /\ o.rows # << >>
                  THEN LET existing_dates == Dates(f_all_data)
                       IN  f_all_data \o
                           SelectSeq(o.rows, LAMBDA r : r.date \notin existing_dates)
                  ELSE f_all_data
    /\ f_idx' = f_idx + 1
    /\ UNCHANGED <<f_pc, f_req, f_cred0, f_chunks, f_combine, f_result,
                   f_response, f_files>>
    /\ UNCHANGED varsBesideF

\* fetch_data_in_batches after its loop: [] when all_data is empty, else
\* all_data sorted by date
BatchFinish ==
    /\ f_pc = "batch_loop"
    /\ f_idx > Len(f_chunks)
    /\ f_result' = [status |-> "ok", error |-> "",
                    series |-> IF f_all_data = << >> THEN << >>
                               ELSE sort_by_date(f_all_data)]
    /\ f_pc' = "returned"
    /\ UNCHANGED <<f_req, f_cred, f_cred0, f_chunks, f_idx, f_all_data, f_log,
                   f_refreshes, f_combine, f_response, f_files>>
    /\ UNCHANGED varsBesideF

\* the single fetch of fetch_historical_data_by_symbol: one
\* fetch_historical_data call for the whole range, returned as it is
SingleFetch ==
    /\ f_pc = "single"
    /\ LET range == <<f_req.from_date, f_req.to_date>>
       IN  \E o \in fetch_historical_data(f_cred, range[1], range[2],
                                          f_req.interval, FALSE) :
             /\ f_cred' = o.cred
             /\ f_refreshes' = f_refreshes + o.refreshes
             /\ f_log' = Append(f_log, LogEntry("single", range, o))
             /\ f_result' = IF o.raised
                            THEN [status |-> "error", error |-> "fetch",
                                  series |-> << >>]
                            ELSE [status |-> "ok", error |-> "", series |-> o.rows]
    /\ f_pc' = "returned"
    /\ UNCHANGED <<f_req, f_cred0, f_chunks, f_idx, f_all_data, f_combine,
                   f_response, f_files>>
    /\ UNCHANGED varsBesideF

\* the entry point after fetch_historical_data_smart: the views save the
\* series with save_data_to_json and report success, or report the
\* exception; a direct caller gets the series or the exception
Respond ==
    /\ f_pc = "returned"
    /\ IF f_result.status = "ok"
       THEN IF f_req.entry = "smart"
            THEN /\ f_response' = [status |-> "returned", saved |-> FALSE]
                 /\ UNCHANGED f_files
            ELSE /\ f_files' = f_files \cup {timestamped_filename(f_req)}
                 /\ f_response' = [status |-> "success", saved |-> TRUE]
       ELSE /\ f_response' = [status |-> "error", saved |-> FALSE]
            /\ UNCHANGED f_files
    /\ f_pc' = "done"
    /\ UNCHANGED <<f_req, f_cred, f_cred0, f_chunks, f_idx, f_all_data, f_log,
                   f_refreshes, f_combine, f_result>>
    /\ UNCHANGED varsBesideF

FetchNext ==
    \/ SubmitIndex
    \/ SubmitApi
    \/ CallSmart
    \/ CombineChunk
    \/ CombineFinish
    \/ ChunkedExcept
    \/ BatchChunk
    \/ BatchFinish
    \/ SingleFetch
    \/ Respond

SpecFetch == FetchInit /\ [][FetchNext]_vars


\* ------------------------------------------------- SpecStrategy
\* implement_strategy(df_15m, df_1h, df_1d), its for loop pass by pass.  The
\* frames are read as the loop reads them: bar i of df_15m gives close, open
\* and MACD_Histogram (the columns calculate_indicators left); MA_5 is the
\* rolling mean of close over 5 bars; of df_1h and df_1d a pass sees the last
\* candle at or before the bar's timestamp, or none.  The index of df_15m
\* ascends, so a frame that had a candle for one bar has one for every later
\* bar.  Arithmetic is exact.
Prices == 1..MaxPrice

\* MACD_Histogram of a bar: below, at and above zero
HistogramValues == {0 - 1, 0, 1}

\* a candle of df_1h or df_1d as [open, close]: a rising and a falling one
Candles == { [open |-> 1, close |-> 2], [open |-> 2, close |-> 1] }

\* Signal_Confidence = 0.8, in tenths
SignalConfidence == 8

\* rolling(window=5)
RollingWindow == 5

\* the branch of a pass chosen whatever the state of the trade
either_side(trade) == TRUE

\* a pass at bar i reads MA_5 back to bar i - 2, hence close back to bar
\* i - 2 - (RollingWindow - 1)
LookBack == 2 + (RollingWindow - 1)

\* the rows lo .. of a column
Rows(column, lo) ==
    [k \in {j \in DOMAIN column : j >= lo} |-> column[k]]

\* the column with the row of bar k added
WithRow(column, k, value) ==
    [j \in DOMAIN column \cup {k} |-> IF j = k THEN value ELSE column[j]]

\* rolling(window=5).mean() is NaN before the fifth bar
MA_5_defined(k) == k >= RollingWindow - 1

\* ewm(span=26, adjust=False): the slow average of the MACD
macd_slow == 26

\* ewm(span=..., adjust=False).mean() is given no min_periods, so it holds a
\* value from the first bar on: MACD, MACD_Signal and MACD_Histogram of bar k
\* are numbers for every bar of the frame, however short the frame
MACD_defined(k) == k >= 0

\* five times df_15m["MA_5"].iloc[k], for a defined MA_5
MA_5_x5(closes, k) ==
    closes[k - 4] + closes[k - 3] + closes[k - 2] + closes[k - 1] + closes[k]

\* MA_5[a] < MA_5[b]; False when either is NaN
MA_5_lt(closes, a, b) ==
    MA_5_defined(a) /\ MA_5_defined(b) /\ MA_5_x5(closes, a) < MA_5_x5(closes, b)

\* MA_5[a] >= MA_5[b]; False when either is NaN
MA_5_ge(closes, a, b) ==
    MA_5_defined(a) /\ MA_5_defined(b) /\ MA_5_x5(closes, a) >= MA_5_x5(closes, b)

\* the average compared with the close of the bar itself
ma_above_close(closes, k) ==
    MA_5_defined(k) /\ MA_5_x5(closes, k) > 5 * closes[k]

\* ma_cross_up = MA_5[i] > close[i - 1]
ma_cross_up(closes, k) ==
    MA_5_defined(k) /\ MA_5_x5(closes, k) > 5 * closes[k - 1]

\* all_green: the 15-minute bar and both candles close above their open
all_green(bar_close, bar_open, h, d) ==
    /\ bar_close > bar_open
    /\ h.close > h.open
    /\ d.close > d.open

\* macd_red_histogram = MACD_Histogram[i] < 0
macd_red_histogram(hist) == hist < 0

\* the average falling at i after not rising at i - 1
ma_falling_twice(closes, k) ==
    MA_5_lt(closes, k, k - 1) /\ MA_5_ge(closes, k - 2, k - 1)

\* ma_cross_down = MA_5[i] < MA_5[i - 1] and MA_5[i - 1] >= MA_5[i - 2]
ma_cross_down(closes, k) == MA_5_lt(closes, k, k - 1) /\ MA_5_ge(closes, k - 1, k - 2)

\* the frame's first five bars; the signal columns hold their defaults
StrategyInit ==
    /\ s_pc = "loop"
    /\ df_close \in [0..4 -> Prices]
    /\ s_i = 5
    /\ in_trade = FALSE
    /\ has_1h = FALSE
    /\ has_1d = FALSE
    /\ step = NoStep
    /\ Signal_Type = ""
    /\ Signal_Price = 0
    /\ Signal_Confidence = 0
    /\ buy_signals = 0
    /\ sell_signals = 0
    /\ IdleBesideS

\* `if not in_trade:` - the buy conditions are the ones the pass evaluates
buy_side(trade) == ~trade

\* the row of bar i holds `type`, `price` and `confidence`
SetSignal(type, price, confidence) ==
    /\ Signal_Type' = type
    /\ Signal_Price' = price
    /\ Signal_Confidence' = confidence

\* a pass of the loop up to its candle lookup: bar i = s_i is read, the last
\* candles at or before it are looked up; when a frame has none the
\* IndexError is caught and the pass ends (continue)
Lookup ==
    /\ s_pc = "loop"
    /\ s_i < MaxBars
    /\ \E c \in Prices, o \in Prices, hist \in HistogramValues,
          h \in Candles \cup {NoCandle}, d \in Candles \cup {NoCandle} :
        /\ has_1h => h # NoCandle
        /\ has_1d => d # NoCandle
        /\ has_1h' = (h # NoCandle)
        /\ has_1d' = (d # NoCandle)
        /\ SetSignal("", 0, 0)
        /\ IF h = NoCandle \/ d = NoCandle
           THEN /\ df_close' = Rows(WithRow(df_close, s_i, c), (s_i + 1) - LookBack)
                /\ step' = NoStep
                /\ s_i' = s_i + 1
                /\ UNCHANGED s_pc
           ELSE /\ df_close' = WithRow(df_close, s_i, c)
                /\ step' = [ open |-> o, MACD_Histogram |-> hist,
                             current_1h_candle |-> h, current_1d_candle |-> d ]
                /\ s_pc' = "decide"
                /\ UNCHANGED s_i
    /\ UNCHANGED <<in_trade, buy_signals, sell_signals>>
    /\ UNCHANGED varsBesideS

\* the rest of the pass: the buy conditions when not in a trade, the sell
\* conditions when in one
Decide ==
    /\ s_pc = "decide"
    /\ IF buy_side(in_trade)
       THEN IF /\ ma_cross_up(df_close, s_i)
               /\ all_green(df_close[s_i], step.open, step.current_1h_candle,
                            step.current_1d_candle)
            THEN /\ SetSignal("BUY", df_close[s_i], SignalConfidence)
                 /\ buy_signals' = buy_signals + 1
                 /\ in_trade' = TRUE
                 /\ UNCHANGED sell_signals
            ELSE /\ UNCHANGED <<Signal_Type, Signal_Price, Signal_Confidence>>
                 /\ UNCHANGED <<in_trade, buy_signals, sell_signals>>
       ELSE IF macd_red_histogram(step.MACD_Histogram) /\ ma_cross_down(df_close, s_i)
            THEN /\ SetSignal("SELL", df_close[s_i], SignalConfidence)
                 /\ sell_signals' = sell_signals + 1
                 /\ in_trade' = FALSE
                 /\ UNCHANGED buy_signals
            ELSE /\ UNCHANGED <<Signal_Type, Signal_Price, Signal_Confidence>>
                 /\ UNCHANGED <<in_trade, buy_signals, sell_signals>>
    /\ df_close' = Rows(df_close, (s_i + 1) - LookBack)
    /\ step' = NoStep
    /\ s_i' = s_i + 1
    /\ s_pc' = "loop"
    /\ UNCHANGED <<has_1h, has_1d>>
    /\ UNCHANGED varsBesideS

\* i reached len(df_15m): return df_15m
StrategyReturn ==
    /\ s_pc = "loop"
    /\ s_pc' = "done"
    /\ UNCHANGED <<df_close, s_i, in_trade, has_1h, has_1d, step, Signal_Type,
                   Signal_Price, Signal_Confidence, buy_signals, sell_signals>>
    /\ UNCHANGED varsBesideS

StrategyNext ==
    \/ Lookup
    \/ Decide
    \/ StrategyReturn

SpecStrategy == StrategyInit /\ [][StrategyNext]_vars

\* ------------------------------------------------- SpecBacktest
\* backtest_strategy(df): of the frame the evaluator reads the columns close
\* and Signal.  Arithmetic is exact: a float the code computes as a quotient
\* is the pair [num, den] of its numerator and its denominator.
MaxRows == 4

\* the closes a bar of the frame may have
BacktestCloses == {100, 110, 120}

\* df["Signal"]: 1 at a BUY bar, -1 at a SELL bar, 0 elsewhere
SignalValues == {0 - 1, 0, 1}

Quotient(num, den) == [num |-> num, den |-> den]

\* a trade that made a loss
is_negative(p) == p < 0

\* df.loc[df["Signal"] == v, "close"].reset_index(drop=True)
closes_where(df, v) ==
    LET rows == SelectSeq(df, LAMBDA r : r.Signal = v)
    IN  [k \in 1..Len(rows) |-> rows[k].close]

\* `p <= 0` of the losing_trades count
is_losing(p) == p <= 0

\* the last value of (1 + series).cumprod() for a series holding
\* (sells[k] - buys[k]) / buys[k] at its k-th non-zero row, k = 1..n, as the
\* quotient of the product of the sells and the product of the buys
RECURSIVE cumprod(_, _, _)
cumprod(buys, sells, n) ==
    IF n = 0 THEN Quotient(1, 1)
    ELSE LET rest == cumprod(buys, sells, n - 1)
         IN  Quotient(rest.num * sells[n], rest.den * buys[n])

\* (q - 1) * 100
percent_change(q) == Quotient((q.num - q.den) * 100, q.den)

backtest_strategy(df) ==
    LET buys == closes_where(df, 1)
        sells == closes_where(df, 0 - 1)
        n == Min(Len(buys), Len(sells))
    IN  IF n = 0
        THEN [ status |-> "returned",
               total_trades |-> 0,
               winning_trades |-> 0,
               losing_trades |-> 0,
               trade_returns |-> << >>,
               total_return |-> Quotient(0, 1),
               market_return |-> Quotient(0, 1),
               strategy_return |-> Quotient(0, 1),
               buy_signals |-> 0,
               sell_signals |-> 0,
               win_rate |-> Quotient(0, 1) ]
        ELSE LET profits == [k \in 1..n |-> sells[k] - buys[k]]
                 trade_returns == [k \in 1..n |-> Quotient(profits[k], buys[k])]
                 winning_trades == Cardinality({k \in 1..n : profits[k] > 0})
                 losing_trades == Cardinality({k \in 1..n : is_losing(profits[k])})
                 market_return ==
                     percent_change(Quotient(df[Len(df)].close, df[1].close))
                 strategy_return == percent_change(cumprod(buys, sells, n))
             IN  [ status |-> "returned",
                   total_trades |-> n,
                   winning_trades |-> winning_trades,
                   losing_trades |-> losing_trades,
                   trade_returns |-> trade_returns,
                   total_return |-> strategy_return,
                   market_return |-> market_return,
                   strategy_return |-> strategy_return,
                   buy_signals |-> Len(buys),
                   sell_signals |-> Len(sells),
                   win_rate |-> Quotient(winning_trades * 100, n) ]

\* the frames of up to MaxRows bars
BacktestFrames ==
    UNION { [1..len -> [close : BacktestCloses, Signal : SignalValues]] :
            len \in 0..MaxRows }

BacktestInit ==
    /\ bt_pc = "call"
    /\ bt_df \in BacktestFrames
    /\ bt_results = NoBacktest
    /\ IdleBesideB

\* backtest_results = self.backtest_strategy(df)
Backtest ==
    /\ bt_pc = "call"
    /\ bt_results' = backtest_strategy(bt_df)
    /\ bt_pc' = "returned"
    /\ UNCHANGED bt_df
    /\ UNCHANGED varsBesideB

BacktestNext == Backtest

SpecBacktest == BacktestInit /\ [][BacktestNext]_vars

\* ------------------------------------------------- SpecStore
\* The index view and fetch_data_api handling requests with the same symbol,
\* dates and interval one after another.  fetch_historical_data_smart is
\* taken by its outcome (it returns a series or raises); the clock is read in
\* whole seconds, as strftime("%Y%m%d_%H%M%S") prints it.
MaxRequests == 3
MaxClock == 2

\* the name save_data_to_json gives the file it writes at the second `now`:
\* f"{symbol}_{interval}_{from}_to_{to}_{timestamp}.json"
stamped_filename(req, now) == timestamped_filename(req) @@ [timestamp |-> now]

\* save_data_to_json: open(file_path, 'w') creates the file or truncates the
\* file of that name
save_data_to_json(files, req, now) == files \cup {stamped_filename(req, now)}

\* the parameters of the requests of a run
StoreRequests ==
    { Request("none", "RELIANCE", 0, t, i, FALSE) :
        t \in {0 - 1, 30}, i \in {"minute", "day"} }

StoreInit ==
    /\ st_pc = "idle"
    /\ st_req \in StoreRequests
    /\ st_files = {}
    /\ st_now = 0
    /\ st_requests = 0
    /\ st_fetches = 0
    /\ st_saves = 0
    /\ st_answer = "none"
    /\ IdleBesideT

\* the checks a view makes of the credential row before it turns to the
\* service: "" when they pass
credential_check(entry, cred) ==
    IF ~cred.present \/ ~cred.is_authenticated THEN "not_authenticated"
    ELSE IF entry = "api" /\ ~(cred.access_token /\ cred.token_valid)
    THEN "401_token_expired"
    ELSE ""

\* a POST to the index view or to fetch_data_api, up to the call of
\* fetch_historical_data_smart
StoreSubmit ==
    /\ st_pc = "idle"
    /\ st_requests < MaxRequests
    /\ \E entry \in {"index", "api"}, cred \in CredStates :
        LET req == [st_req EXCEPT !.entry = entry]
        IN  /\ st_req' = req
            /\ st_requests' = st_requests + 1
            /\ IF entry = "index" /\ ~StockDataFetchForm_is_valid(req)
               THEN /\ st_answer' = "form_invalid"
                    /\ UNCHANGED <<st_pc, st_fetches>>
               ELSE IF credential_check(entry, cred) # ""
               THEN /\ st_answer' = credential_check(entry, cred)
                    /\ UNCHANGED <<st_pc, st_fetches>>
               ELSE IF load_data_from_json(st_files, req)
               THEN /\ st_answer' = "exists"
                    /\ UNCHANGED <<st_pc, st_fetches>>
               ELSE /\ st_answer' = "none"
                    /\ st_pc' = "fetching"
                    /\ st_fetches' = st_fetches + 1
    /\ UNCHANGED <<st_files, st_now, st_saves>>
    /\ UNCHANGED varsBesideT

\* fetch_historical_data_smart returns its series or raises
StoreFetch ==
    /\ st_pc = "fetching"
    /\ \/ st_pc' = "saving" /\ UNCHANGED st_answer
       \/ st_pc' = "idle" /\ st_answer' = "error"
    /\ UNCHANGED <<st_req, st_files, st_now, st_requests, st_fetches, st_saves>>
    /\ UNCHANGED varsBesideT

\* filepath = kite_service.save_data_to_json(historical_data, ...), and the
\* answer
StoreSave ==
    /\ st_pc = "saving"
    /\ st_files' = save_data_to_json(st_files, st_req, st_now)
    /\ st_saves' = st_saves + 1
    /\ st_answer' = "success"
    /\ st_pc' = "idle"
    /\ UNCHANGED <<st_req, st_now, st_requests, st_fetches>>
    /\ UNCHANGED varsBesideT

\* a second passes
StoreTick ==
    /\ st_now < MaxClock
    /\ st_now' = st_now + 1
    /\ UNCHANGED <<st_pc, st_req, st_files, st_requests, st_fetches, st_saves,
                   st_answer>>
    /\ UNCHANGED varsBesideT

StoreNext ==
    \/ StoreSubmit
    \/ StoreFetch
    \/ StoreSave
    \/ StoreTick

SpecStore == StoreInit /\ [][StoreNext]_vars

\* ------------------------------------------------- SpecRun
\* run_strategy_on_file(file_path, symbol), called again and again.  A data
\* file stands for what load_data_from_json, resample_data,
\* calculate_indicators and implement_strategy make of it, a function of the
\* file alone: the frame with its Signal column, and the dates of its first
\* and last record.
MaxRuns == 3

\* self.strategy_name
strategy_name == "MACD_MA_CrossOver_Strategy"

RunSymbols == {"RELIANCE", "TCS"}

\* "empty" holds no records: load_data_from_json raises ValueError;
\* "jan_open" ends in a trade that was bought and not sold
DataFiles == {"jan", "jan_flat", "jan_open", "feb", "empty"}

Bar(close, signal) == [close |-> close, Signal |-> signal]

\* df_with_signals of a file
df_with_signals(file) ==
    CASE file = "jan" -> <<Bar(100, 1), Bar(120, 0 - 1), Bar(110, 1)>>
      [] file = "jan_flat" -> <<Bar(100, 0), Bar(100, 0), Bar(100, 0)>>
      [] file = "jan_open" -> <<Bar(100, 0), Bar(110, 1)>>
      [] file = "feb" -> <<Bar(110, 0), Bar(100, 1), Bar(120, 0 - 1)>>
      [] OTHER -> << >>

\* df.index.min(), as a day number; bar k of the frame is dated k - 1 bars on
index_min(file) == IF file = "feb" THEN 31 ELSE 0

\* df.index.max()
index_max(file) == index_min(file) + (Len(df_with_signals(file)) - 1)

\* a table left as it is
keep_rows(table, symbol, strategy) == table

\* TradingSignal.objects.filter(symbol=symbol, strategy=strategy).delete()
delete_signals(table, symbol, strategy) ==
    SelectSeq(table, LAMBDA r : ~(r.symbol = symbol /\ r.strategy = strategy))

\* the rows save_signals_to_db saves, one for each bar with Signal != 0
new_signals(df, first, symbol, strategy) ==
    LET bars == [k \in 1..Len(df) |-> [k |-> k, bar |-> df[k]]]
        actual == SelectSeq(bars, LAMBDA b : b.bar.Signal # 0)
    IN  [j \in 1..Len(actual) |->
            [ symbol |-> symbol,
              strategy |-> strategy,
              signal_type |-> IF actual[j].bar.Signal = 1 THEN "BUY" ELSE "SELL",
              timestamp |-> first + (actual[j].k - 1),
              price |-> actual[j].bar.close ]]

\* save_signals_to_db: the table after it
save_signals_to_db(table, df, first, symbol, strategy) ==
    delete_signals(table, symbol, strategy)
    \o new_signals(df, first, symbol, strategy)

\* save_backtest_results: the table after it
save_backtest_results(table, symbol, strategy, results, from_date, to_date) ==
    SelectSeq(table, LAMBDA r : ~( /\ r.strategy = strategy
                                   /\ r.symbol = symbol
                                   /\ r.from_date = from_date
                                   /\ r.to_date = to_date ))
    \o << [ strategy |-> strategy, symbol |-> symbol, from_date |-> from_date,
            to_date |-> to_date, results_data |-> results ] >>

RunInit ==
    /\ db_strategies = {}
    /\ db_signals = << >>
    /\ db_backtests = << >>
    /\ r_log = << >>
    /\ IdleBesideR

\* the dict run_strategy_on_file returns, with the arguments of the call
RunResult(file, symbol, success, signals_created) ==
    [ file |-> file, symbol |-> symbol, success |-> success,
      signals_created |-> signals_created ]

\* one call of run_strategy_on_file, from load_data_from_json to its return
Run ==
    /\ Len(r_log) < MaxRuns
    /\ \E file \in DataFiles, symbol \in RunSymbols :
        LET df == df_with_signals(file)
        IN  IF df = << >>
            THEN /\ r_log' = Append(r_log, RunResult(file, symbol, FALSE, 0))
                 /\ UNCHANGED <<db_strategies, db_signals, db_backtests>>
            ELSE /\ db_strategies' = db_strategies \cup {strategy_name}
                 /\ db_signals' = save_signals_to_db(db_signals, df,
                                       index_min(file), symbol, strategy_name)
                 /\ db_backtests' = save_backtest_results(db_backtests, symbol,
                                       strategy_name, backtest_strategy(df),
                                       index_min(file), index_max(file))
                 /\ r_log' = Append(r_log, RunResult(file, symbol, TRUE,
                                  Len(new_signals(df, index_min(file), symbol,
                                                  strategy_name))))
    /\ UNCHANGED varsBesideR

RunNext == Run

SpecRun == RunInit /\ [][RunNext]_vars

\* ------------------------------------------------- SpecAgain
\* Two calls of fetch_historical_data_smart with the same arguments, the
\* second after the first has returned.  The call under way moves through
\* the actions of SpecFetch; the credential row is the one the first call
\* left.
\* the chunk the loop of a call left off at
chunk_left_at == f_idx

\* enumerate(date_chunks, 1): a call starts at its first chunk
first_chunk == 1

\* the arguments: a range within the limit of minute data and one of two
\* chunks, as strings or as date objects
AgainRequests ==
    { Request("smart", "RELIANCE", 0, sp, "minute", d) :
        sp \in {0, limit_days("minute") + 2}, d \in BOOLEAN }

\* a live session, and an expired one with a refresh token held
AgainCreds ==
    { Cred(TRUE, TRUE, TRUE, TRUE, TRUE), Cred(TRUE, TRUE, TRUE, FALSE, TRUE) }

AgainInit ==
    /\ \E cred \in AgainCreds : FetchAtRest(cred)
    /\ AgainIdle
    /\ IdleBesideA

\* a call of fetch_historical_data_smart: the first with any of the
\* arguments, the second with those of the first
AgainCall ==
    /\ f_pc = "idle"
    /\ a_run < 2
    /\ \E req \in IF a_run = 0 THEN AgainRequests ELSE {a_req} :
        /\ f_req' = req
        /\ a_req' = req
        /\ Smart(req)
    /\ a_run' = a_run + 1
    /\ UNCHANGED <<f_cred, f_cred0, f_idx, f_all_data, f_log, f_refreshes,
                   f_response, f_files>>
    /\ UNCHANGED <<a_first, a_log>>
    /\ UNCHANGED varsBesideA

\* the first call is over: its caller keeps what it gave, and the locals of
\* the call are gone; the credential row stays as the call left it
AgainReturn ==
    /\ f_pc = "done"
    /\ a_run = 1
    /\ a_first' = f_result
    /\ a_log' = f_log
    /\ f_pc' = "idle"
    /\ f_req' = NoRequest
    /\ f_cred0' = f_cred
    /\ f_chunks' = << >>
    /\ f_idx' = first_chunk
    /\ f_all_data' = << >>
    /\ f_log' = << >>
    /\ f_refreshes' = 0
    /\ f_combine' = NoResult
    /\ f_result' = NoResult
    /\ f_response' = NoResponse
    /\ UNCHANGED <<f_cred, f_files>>
    /\ UNCHANGED <<a_run, a_req>>
    /\ UNCHANGED varsBesideA

AgainNext ==
    \/ AgainCall
    \/ AgainReturn
    \/ CombineChunk
    \/ CombineFinish
    \/ ChunkedExcept
    \/ BatchChunk
    \/ BatchFinish
    \/ SingleFetch
    \/ Respond

SpecAgain == AgainInit /\ [][AgainNext]_vars

\* ------------------------------------------------- SpecRefresh
\* Two requests served at the same time: each builds its own
\* KiteDataService from the stored APICredentials row and calls
\* is_authenticated.  refresh_access_token takes its steps one at a time:
\* the call of kite.renew_access_token, then the assignments to
\* self.credentials and credentials.save().
MaxHour == 2

\* timedelta(hours=24)
TokenHours == 24

Services == {1, 2}

\* the service keeps the model instance it was given
held_credentials(row) == row

\* Model.save() writes every field of the instance
saved_row(credentials) == credentials

\* APICredentials.is_token_valid
is_token_valid(credentials, now) ==
    IF ~credentials.token_held THEN FALSE
    ELSE now < credentials.token_expires_at

\* the stored row of an authenticated account: its token (number 0) expired
\* with and without a refresh token held, or still valid
RefreshRows ==
    { [ is_authenticated |-> TRUE, access_token |-> 0, token_held |-> TRUE,
        refresh_token |-> r, token_expires_at |-> e ] :
        r \in BOOLEAN, e \in {0, TokenHours} }

RefreshInit ==
    /\ k_pc = [s \in Services |-> "new"]
    /\ k_credentials = [s \in Services |-> NoCredentials]
    /\ k_session = [s \in Services |-> 0]
    /\ k_row \in RefreshRows
    /\ k_issued = 0
    /\ k_now = 0
    /\ IdleBesideK

\* KiteDataService(credentials) with the row as the view read it
ServiceInit(s) ==
    /\ k_pc[s] = "new"
    /\ k_credentials' = [k_credentials EXCEPT ![s] = held_credentials(k_row)]
    /\ k_pc' = [k_pc EXCEPT ![s] = "ready"]
    /\ UNCHANGED <<k_session, k_row, k_issued, k_now>>
    /\ UNCHANGED varsBesideK

\* is_authenticated up to the call of kite.renew_access_token
IsAuthenticated(s) ==
    /\ k_pc[s] = "ready"
    /\ LET c == k_credentials[s]
       IN  k_pc' = [k_pc EXCEPT ![s] =
               IF ~c.is_authenticated \/ ~c.token_held THEN "false"
               ELSE IF is_token_valid(c, k_now) THEN "true"
               ELSE IF ~c.refresh_token THEN "false"
               ELSE "refresh"]
    /\ UNCHANGED <<k_credentials, k_session, k_row, k_issued, k_now>>
    /\ UNCHANGED varsBesideK

\* kite.renew_access_token returns a session with a new token
Renew(s) ==
    /\ k_pc[s] = "refresh"
    /\ k_issued' = k_issued + 1
    /\ k_session' = [k_session EXCEPT ![s] = k_issued + 1]
    /\ k_pc' = [k_pc EXCEPT ![s] = "renewed"]
    /\ UNCHANGED <<k_credentials, k_row, k_now>>
    /\ UNCHANGED varsBesideK

\* kite.renew_access_token raises: refresh_access_token returns False
RenewRaises(s) ==
    /\ k_pc[s] = "refresh"
    /\ k_pc' = [k_pc EXCEPT ![s] = "false"]
    /\ UNCHANGED <<k_credentials, k_session, k_row, k_issued, k_now>>
    /\ UNCHANGED varsBesideK

\* the token and its expiry are set on self.credentials and saved
SaveCredentials(s) ==
    /\ k_pc[s] = "renewed"
    /\ LET c == [k_credentials[s] EXCEPT
                   !.access_token = k_session[s],
                   !.token_held = TRUE,
                   !.token_expires_at = k_now + TokenHours]
       IN  /\ k_credentials' = [k_credentials EXCEPT ![s] = c]
           /\ k_row' = saved_row(c)
    /\ k_pc' = [k_pc EXCEPT ![s] = "true"]
    /\ UNCHANGED <<k_session, k_issued, k_now>>
    /\ UNCHANGED varsBesideK

\* an hour passes
RefreshTick ==
    /\ k_now < MaxHour
    /\ k_now' = k_now + 1
    /\ UNCHANGED <<k_pc, k_credentials, k_session, k_row, k_issued>>
    /\ UNCHANGED varsBesideK

RefreshNext ==
    \/ \E s \in Services : ServiceInit(s)
    \/ \E s \in Services : IsAuthenticated(s)
    \/ \E s \in Services : Renew(s)
    \/ \E s \in Services : RenewRaises(s)
    \/ \E s \in Services : SaveCredentials(s)
    \/ RefreshTick

SpecRefresh == RefreshInit /\ [][RefreshNext]_vars

\* ------------------------------------------------- SpecForm
\* A fetch form is bound to data and validated.  The test scripts bind
\* DataFetchForm and read is_valid(); the index view binds
\* StockDataFetchForm to the POST and, the form valid, goes on to
\* fetch_historical_data_smart.
\* 2024-01-01 .. 2024-04-01 and 2023-07-01 .. 2024-01-01, the 'Medium range
\* (90 days)' and the 'Large range (180 days)' of the test script
MediumRange == 91
LargeRange == 184

\* The spans tried for an interval: short ones, those of the test script,
\* those next to a year and to two years, and those at and next to the
\* interval's limit; and one with from after to.
FormSpans(interval) ==
    {0 - 1, 0, 30, MediumRange, LargeRange, 364, 365, 366, 401, 730} \cup
    { limit_days(interval) + d : d \in (0 - 1)..1 }

FormClasses == {"DataFetchForm", "StockDataFetchForm"}

\* the data a form is bound to: a symbol, an interval and two dates, the
\* later one about today
FormData ==
    { [ form |-> c,
        request |-> Request(IF c = "StockDataFetchForm" THEN "index" ELSE "test",
                            sym, to - sp, to, i, FALSE) ] :
        c \in FormClasses, sym \in TRADING_SYMBOLS \cup {UnknownSymbol},
        i \in AllIntervals, to \in (Today - 1)..(Today + 1),
        sp \in UNION { FormSpans(j) : j \in AllIntervals } }

\* the index view is served with a live session and an empty data_storage
FormInit ==
    /\ m_pc = "bound"
    /\ m_data \in FormData
    /\ m_valid = FALSE
    /\ FetchAtRest(Cred(TRUE, TRUE, TRUE, TRUE, TRUE))
    /\ IdleBesideM

\* form = DataFetchForm(data=...); form.is_valid()
TestForm ==
    /\ m_pc = "bound"
    /\ m_data.form = "DataFetchForm"
    /\ m_valid' = DataFetchForm_is_valid(m_data.request)
    /\ m_pc' = "cleaned"
    /\ UNCHANGED m_data
    /\ UNCHANGED varsF
    /\ UNCHANGED varsBesideM

\* views.index, POST, with the form bound to m_data
IndexPost ==
    /\ m_pc = "bound"
    /\ m_data.form = "StockDataFetchForm"
    /\ m_valid' = StockDataFetchForm_is_valid(m_data.request)
    /\ m_pc' = "cleaned"
    /\ f_pc = "idle"
    /\ f_req' = m_data.request
    /\ IF ~StockDataFetchForm_is_valid(m_data.request)
       THEN Answer("form_invalid")
       ELSE IF ~f_cred.present \/ ~f_cred.is_authenticated
       THEN Answer("not_authenticated")
       ELSE IF load_data_from_json(f_files, m_data.request)
       THEN Answer("exists")
       ELSE Smart(m_data.request) /\ UNCHANGED f_response
    /\ UNCHANGED m_data
    /\ UNCHANGED <<f_cred, f_cred0, f_idx, f_all_data, f_log, f_refreshes, f_files>>
    /\ UNCHANGED varsBesideM

FormNext ==
    \/ TestForm
    \/ IndexPost

SpecForm == FormInit /\ [][FormNext]_vars

\* ------------------------------------------------- SpecList
\* One call of list_available_data_files.  A directory entry is a file name
\* (its place in the directory stands for it), whether the name ends in
\* .json, and what reading it gives:
\*   "unreadable"   open() raises;
\*   "invalid_json" json.load raises;
\*   "array"        the document is a JSON list, so data.get raises;
\*   "legacy"       an object whose metadata has no generated_at;
\*   "artifact"     an object whose metadata.generated_at is an ISO string,
\*                  here the number of the instant it names;
\*   "mistyped"     an object whose metadata.generated_at is a JSON number.
\* A directory that does not exist lists as an empty one.
MaxFiles == 3
MaxStamp == 2

DirEntry(json, content, generated_at) ==
    [json |-> json, content |-> content, generated_at |-> generated_at]

DirEntries ==
    { DirEntry(FALSE, "artifact", 1) }
    \cup { DirEntry(TRUE, c, 0) : c \in {"unreadable", "invalid_json", "array", "legacy"} }
    \cup { DirEntry(TRUE, "artifact", t) : t \in 1..MaxStamp }
    \cup { DirEntry(TRUE, "mistyped", 1) }

\* the body of the try block raises for the entry
read_raises(entry) == entry.content \in {"unreadable", "invalid_json", "array"}

\* file_info: the file name and metadata.get('generated_at'), a string, a
\* number or None
file_info(filename, entry) ==
    [ filename |-> filename,
      fetched_at |-> IF entry.content = "artifact"
                     THEN [type |-> "str", value |-> entry.generated_at]
                     ELSE IF entry.content = "mistyped"
                     THEN [type |-> "int", value |-> entry.generated_at]
                     ELSE [type |-> "None", value |-> 0] ]

\* x.get('fetched_at') or '1900-01-01T00:00:00': the string named by 0, before
\* every instant the program can write
sort_key(info) ==
    IF info.fetched_at.type = "None" THEN [type |-> "str", value |-> 0]
    ELSE info.fetched_at

\* list.sort(key=..., reverse=True) of keys of one type: highest key first,
\* equal keys in the order they had
RECURSIVE sorted_reverse(_)
sorted_reverse(files) ==
    IF files = << >> THEN << >>
    ELSE LET top == CHOOSE k \in 1..Len(files) :
                        /\ \A j \in 1..Len(files) :
                               sort_key(files[j]).value <= sort_key(files[k]).value
                        /\ \A j \in 1..(k - 1) :
                               sort_key(files[j]).value < sort_key(files[k]).value
         IN  << files[top] >> \o
             sorted_reverse(SubSeq(files, 1, top - 1) \o
                            SubSeq(files, top + 1, Len(files)))

\* comparing a str key with an int key raises TypeError; a sort of keys of
\* both types makes such a comparison
sort_raises(files) ==
    \E j, k \in 1..Len(files) : sort_key(files[j]).type # sort_key(files[k]).type

ListInit ==
    /\ l_pc = "loop"
    /\ \E n \in 0..MaxFiles : l_dir \in [1..n -> DirEntries]
    /\ l_idx = 1
    /\ l_files = << >>
    /\ l_out = NoListing
    /\ IdleBesideL

\* one pass of `for filename in os.listdir(self.data_dir)`
ListEntry ==
    /\ l_pc = "loop"
    /\ l_idx <= Len(l_dir)
    /\ LET entry == l_dir[l_idx]
       IN  l_files' = IF ~entry.json \/ read_raises(entry) THEN l_files
                      ELSE Append(l_files, file_info(l_idx, entry))
    /\ l_idx' = l_idx + 1
    /\ UNCHANGED <<l_pc, l_dir, l_out>>
    /\ UNCHANGED varsBesideL

\* the loop is over: files.sort(...) and return files
ListSort ==
    /\ l_pc = "loop"
    /\ l_idx > Len(l_dir)
    /\ l_out' = IF sort_raises(l_files)
                THEN [status |-> "raised", files |-> << >>]
                ELSE [status |-> "ok", files |-> sorted_reverse(l_files)]
    /\ l_pc' = "done"
    /\ UNCHANGED <<l_dir, l_idx, l_files>>
    /\ UNCHANGED varsBesideL

ListNext ==
    \/ ListEntry
    \/ ListSort

SpecList == ListInit /\ [][ListNext]_vars

\* ------------------------------------------------- SpecAhead
\* resample_data and implement_strategy on a file of 15-minute records.  A
\* timestamp is a count of quarter hours since midnight; the records start
\* at 09:15, one to a quarter hour.  MACD_Histogram of a bar comes from
\* ewm(adjust=False) averages, which read the closes up to that bar only:
\* it is given per bar, alike for two frames that agree up to the bar.
AheadBars == 7

\* 09:15, the first record of a trading day
MarketOpen == 37

\* the quarter hours of the buckets of resample("15min"), ("1h") and ("1D")
QuarterHour == 1
Hour == 4
Day == 96

\* a record: a rising and a falling one
BaseRecord(time, open, close) == [time |-> time, open |-> open, close |-> close]

BaseShapes == { [open |-> 1, close |-> 2], [open |-> 2, close |-> 1] }

\* the frames of AheadBars records from 09:15 on
BaseFrames ==
    { [k \in 1..AheadBars |->
          BaseRecord(MarketOpen + (k - 1), shape[k].open, shape[k].close)] :
      shape \in [1..AheadBars -> BaseShapes] }

\* the bucket of width `rule` a timestamp falls in, named by its left edge
bucket_of(time, rule) == (time \div rule) * rule

\* df.resample(rule).agg({"open": "first", "close": "last"}).dropna(): one
\* row for each bucket that holds a record, in time order
resample(df, rule) ==
    LET firsts == SelectSeq(df, LAMBDA r :
                      \A k \in 1..Len(df) :
                          bucket_of(df[k].time, rule) = bucket_of(r.time, rule)
                          => df[k].time >= r.time)
        members(b) == SelectSeq(df, LAMBDA r : bucket_of(r.time, rule) = b)
    IN  [k \in 1..Len(firsts) |->
            LET rows == members(bucket_of(firsts[k].time, rule))
            IN  BaseRecord(bucket_of(firsts[k].time, rule),
                           rows[1].open, rows[Len(rows)].close)]

\* df_x[df_x.index <= time].iloc[-1]; NoCandle when the frame has no such row
candle_at(df_x, time) ==
    LET rows == SelectSeq(df_x, LAMBDA r : r.time <= time)
    IN  IF rows = << >> THEN NoCandle
        ELSE [open |-> rows[Len(rows)].open, close |-> rows[Len(rows)].close]

\* the for loop of implement_strategy from bar i on: the Signal column
RECURSIVE strategy_loop(_, _, _, _, _, _, _)
strategy_loop(df_15m, df_1h, df_1d, hist, i, trade, Signal) ==
    IF i >= Len(df_15m) THEN Signal
    ELSE LET closes == [k \in 0..(Len(df_15m) - 1) |-> df_15m[k + 1].close]
             bar == df_15m[i + 1]
             current_1h_candle == candle_at(df_1h, bar.time)
             current_1d_candle == candle_at(df_1d, bar.time)
             buy == /\ ma_cross_up(closes, i)
                    /\ all_green(bar.close, bar.open, current_1h_candle,
                                 current_1d_candle)
             sell == macd_red_histogram(hist[i]) /\ ma_cross_down(closes, i)
         IN  IF current_1h_candle = NoCandle \/ current_1d_candle = NoCandle
             THEN strategy_loop(df_15m, df_1h, df_1d, hist, i + 1, trade, Signal)
             ELSE IF buy_side(trade)
             THEN strategy_loop(df_15m, df_1h, df_1d, hist, i + 1,
                                IF buy THEN TRUE ELSE trade,
                                IF buy THEN [Signal EXCEPT ![i] = 1] ELSE Signal)
             ELSE strategy_loop(df_15m, df_1h, df_1d, hist, i + 1,
                                IF sell THEN FALSE ELSE trade,
                                IF sell THEN [Signal EXCEPT ![i] = 0 - 1] ELSE Signal)

\* resample_data, then implement_strategy on its three frames: the Signal
\* column of the 15-minute frame, by bar number
signals_of(df, hist) ==
    LET df_15m == resample(df, QuarterHour)
        df_1h == resample(df, Hour)
        df_1d == resample(df, Day)
    IN  strategy_loop(df_15m, df_1h, df_1d, hist, RollingWindow, FALSE,
                      [k \in 0..(Len(df_15m) - 1) |-> 0])

\* two frames that agree on every record up to the end of a bar; the
\* histogram of the bars up to it
AheadInit ==
    /\ h_agree \in RollingWindow..(AheadBars - 1)
    /\ h_base \in { pair \in BaseFrames \X BaseFrames :
                      \A k \in 1..(h_agree + 1) : pair[1][k] = pair[2][k] }
    /\ h_hist \in [RollingWindow..h_agree -> {0 - 1, 1}]
    /\ h_signals = << >>
    /\ IdleBesideH

\* the strategy is run on the first frame
RunFirst ==
    /\ h_signals = << >>
    /\ h_signals' = << signals_of(h_base[1],
                                  [k \in 0..(AheadBars - 1) |->
                                      IF k \in DOMAIN h_hist THEN h_hist[k] ELSE 1]) >>
    /\ UNCHANGED <<h_base, h_hist, h_agree>>
    /\ UNCHANGED varsBesideH

\* the strategy is run on the second frame
RunSecond ==
    /\ Len(h_signals) = 1
    /\ h_signals' = Append(h_signals,
                           signals_of(h_base[2],
                                      [k \in 0..(AheadBars - 1) |->
                                          IF k \in DOMAIN h_hist THEN h_hist[k] ELSE 1]))
    /\ UNCHANGED <<h_base, h_hist, h_agree>>
    /\ UNCHANGED varsBesideH

AheadNext ==
    \/ RunFirst
    \/ RunSecond

SpecAhead == AheadInit /\ [][AheadNext]_vars

\* ------------------------------------------------- SpecSample
\* One call of _generate_sample_data, one action per pass of its while loop.
\* Prices are counted in thousandths, so base_price = 100.0 is 100000, and
\* the arithmetic of the pass is exact; a record holds the prices round(x, 2)
\* gives, in hundredths.  sample_data is followed by its length
\* (record_count counts the appends) and by the record appended last: the
\* loop never touches a record it has appended.
\* A datetime is a day and a minute of that day.
At(day, minute) == [day |-> day, minute |-> minute]

\* a <= b of two datetimes
NotAfter(a, b) == a.day < b.day \/ (a.day = b.day /\ a.minute <= b.minute)

\* days of a call on the daily interval, trading days of an intraday call
MaxDays == 34
MaxTradingDays == 3

\* the draws followed of random.uniform(a, b), which is a + (b - a) * random()
\* with 0 <= random() < 1: the least one and the middle one
uniform(a, b) == {a, a + ((b - a) \div 2)}

\* the draws followed of random.randint(a, b): both ends
randint(a, b) == {a, b}

\* round(x, 2) of a price x in thousandths, in hundredths; every price of
\* the model is a whole number of hundredths or lies off the halves
round_2(x) == (x + 5) \div 10

base_price == 100000

\* from_date and to_date at midnight, as the fetch paths give them
\* (from_date a Monday or a Saturday)
SampleArgs ==
    {[from_date |-> 0, to_date |-> n, interval |-> "day"] :
        n \in {0, MaxDays}}
    \cup {[from_date |-> 5, to_date |-> 5 + n, interval |-> "30minute"] :
        n \in {0, MaxTradingDays}}

\* the state at the head of the while loop, first time
SampleInit ==
    /\ g_pc = "loop"
    /\ g_args \in SampleArgs
    /\ g_current = At(g_args.from_date, 0)
    /\ g_count = 0
    /\ g_base = base_price
    /\ g_record = NoRecord
    /\ IdleBesideG

\* while current_date <= to_date and record_count < max_records
SampleGoesOn ==
    /\ NotAfter(g_current, At(g_args.to_date, 0))
    /\ g_count < sample_max_records(g_args.from_date, g_args.to_date,
                                    g_args.interval)

\* current_time_minutes > end_time_minutes of an intraday pass
AfterTradingHours ==
    /\ g_args.interval \in IntradayIntervals
    /\ g_current.minute > end_time_minutes

\* a pass on a Saturday or Sunday: one day on, continue
SkipWeekend ==
    /\ g_pc = "loop"
    /\ SampleGoesOn
    /\ g_args.interval # "day"
    /\ ~IsWeekday(g_current.day)
    /\ g_current' = At(g_current.day + 1, g_current.minute)
    /\ UNCHANGED <<g_pc, g_args, g_count, g_base, g_record>>
    /\ UNCHANGED varsBesideG

\* a pass after 15:30: 9:15 of the next day, continue
NextTradingDay ==
    /\ g_pc = "loop"
    /\ SampleGoesOn
    /\ g_args.interval # "day"
    /\ IsWeekday(g_current.day)
    /\ AfterTradingHours
    /\ g_current' = At(g_current.day + 1, start_time_minutes)
    /\ UNCHANGED <<g_pc, g_args, g_count, g_base, g_record>>
    /\ UNCHANGED varsBesideG

\* a pass that reaches the draws: a current_date before 9:15 is moved to
\* 9:15 first; the record is appended, base_price becomes the close that
\* was drawn (not the rounded one) and current_date moves on by delta
AppendRecord ==
    /\ g_pc = "loop"
    /\ SampleGoesOn
    /\ g_args.interval = "day" \/ (IsWeekday(g_current.day) /\ ~AfterTradingHours)
    /\ LET current_date ==
               IF /\ g_args.interval \in IntradayIntervals
                  /\ g_current.minute < start_time_minutes
               THEN At(g_current.day, start_time_minutes)
               ELSE g_current
       IN  \E variation \in uniform(-2000, 2000) :
           \E up \in uniform(0, 2000), down \in uniform(0, 2000) :
             LET open_price == g_base + variation
                 high_price == open_price + up
                 low_price == open_price - down
             IN  \E rise \in uniform(0, high_price - low_price) :
                 \E volume \in randint(1000, 100000) :
                   LET close_price == low_price + rise
                   IN  /\ g_record' = [date |-> current_date,
                                       open |-> round_2(open_price),
                                       high |-> round_2(high_price),
                                       low |-> round_2(low_price),
                                       close |-> round_2(close_price),
                                       volume |-> volume]
                       /\ g_base' = close_price
                       /\ g_current' =
                            IF g_args.interval \in IntradayIntervals
                            THEN At(current_date.day,
                                    current_date.minute
                                        + delta_minutes[g_args.interval])
                            ELSE At(current_date.day + 1, current_date.minute)
    /\ g_count' = g_count + 1
    /\ UNCHANGED <<g_pc, g_args>>
    /\ UNCHANGED varsBesideG

\* the loop condition fails: return sample_data
SampleReturn ==
    /\ g_pc = "loop"
    /\ ~SampleGoesOn
    /\ g_pc' = "done"
    /\ UNCHANGED <<g_args, g_current, g_count, g_base, g_record>>
    /\ UNCHANGED varsBesideG

SampleNext ==
    \/ SkipWeekend
    \/ NextTradingDay
    \/ AppendRecord
    \/ SampleReturn

SpecSample == SampleInit /\ [][SampleNext]_vars

\* ------------------------------------------------- claims: planner
ChunkDays(c) == c[1]..c[2]

\* C1: for every from <= to and every interval the chunks cover [from, to]
\* exactly: the first chunk starts at from, the last chunk ends at to, and
\* every day of [from, to] lies in exactly one chunk, none outside the range.
C1_ChunksCoverRange ==
    p_pc = "planned" =>
        /\ Len(p_chunks) >= 1
        /\ p_chunks[1][1] = p_from
        /\ p_chunks[Len(p_chunks)][2] = p_to
        /\ \A d \in p_from..p_to :
               Cardinality({k \in 1..Len(p_chunks) : d \in ChunkDays(p_chunks[k])}) = 1
        /\ \A k \in 1..Len(p_chunks) : ChunkDays(p_chunks[k]) \subseteq p_from..p_to

\* ------------------------------------------------- claims: fetch
\* the dates of a series grow strictly from record to record
StrictlyIncreasing(series) ==
    \A k \in 1..(Len(series) - 1) : series[k].date < series[k + 1].date

Sources(series) == {series[k].src : k \in 1..Len(series)}

\* the fetch_historical_data calls made so far by the loop `by`
Calls(by) == SelectSeq(f_log, LAMBDA c : c.by = by)

\* the call gave its loop data: it did not raise and returned records
Yielded(c) == ~c.raised /\ c.rows # << >>

\* the access token of a credential row is usable as it stands
TokenLive(cred) ==
    cred.present /\ cred.is_authenticated /\ cred.access_token /\ cred.token_valid

\* the request went to the service and the service is through with it
ReconciliationOver == f_pc \in {"returned", "done"} /\ f_log # << >>

\* C2: every series fetch_historical_data_smart returns - from
\* fetch_and_combine_data, from fetch_data_in_batches or from the single
\* call - has strictly increasing, hence unique, timestamps.
C2_SeriesStrictlyIncreasing ==
    f_result.status = "ok" => StrictlyIncreasing(f_result.series)

\* C3: a series returned for a request that was split into several chunks
\* never holds both records of the upstream API and synthetic records.
C3_NeverMixesApiAndSample ==
    (f_result.status = "ok" /\ Len(f_chunks) > 1) =>
        ~({"api", "sample"} \subseteq Sources(f_result.series))

\* C4: a reconciliation that starts with an expired access token (and a held
\* refresh token) makes exactly one token-refresh attempt in all, however
\* many chunks it fetches.
C4_OneRefreshPerReconciliation ==
    ( /\ ReconciliationOver
      /\ f_cred0.present /\ f_cred0.is_authenticated /\ f_cred0.access_token
      /\ ~f_cred0.token_valid /\ f_cred0.refresh_token )
    => f_refreshes = 1

\* C5: when the token is expired at the start and the refresh attempted
\* fails, the request ends in an error: no series is returned as a success
\* and no artifact is saved.
C5_RefreshFailureIsTerminal ==
    ( /\ f_pc = "done"
      /\ f_log # << >>
      /\ ~TokenLive(f_cred0)
      /\ f_refreshes >= 1
      /\ ~TokenLive(f_cred) )
    => /\ f_result.status # "ok"
       /\ f_response.status = "error"
       /\ ~f_response.saved
       /\ f_files = {}

\* C6: when the upstream call of every chunk of a chunked request fails
\* (raises or answers nothing), the caller gets an error: never a successful
\* result, and no artifact is saved.
C6_AllChunksFailedIsTerminal ==
    ( /\ f_pc = "done"
      /\ Len(Calls("combine")) >= 1
      /\ \A k \in 1..Len(f_log) : f_log[k].upstream \in {"empty", "raise"} )
    => /\ f_result.status # "ok"
       /\ f_response.status = "error"
       /\ ~f_response.saved
       /\ f_files = {}

\* fetch_and_combine_data ran its loop to the end
CombineOver ==
    f_combine.status \in {"returned", "raised"} /\ f_combine.error # "symbol"

\* the record that first-seen-wins keeps for the date d: the first record
\* dated d of the first call, in order, that yielded a record dated d
FirstSeen(calls, d) ==
    LET holders == {k \in 1..Len(calls) :
                       Yielded(calls[k]) /\ d \in Dates(calls[k].rows)}
        k0 == CHOOSE k \in holders : \A k2 \in holders : k <= k2
    IN  SelectSeq(calls[k0].rows, LAMBDA r : r.date = d)[1]

\* C7: in fetch_and_combine_data a chunk whose fetch raises or returns no
\* data does not end the loop: every planned chunk is fetched, in order; the
\* call raises exactly when no chunk yielded a record; otherwise it returns,
\* in ascending order of date, for each date some yielding chunk returned
\* the record first seen with it, and nothing else.
C7_CombineContinuesPastFailedChunks ==
    CombineOver =>
        LET calls == Calls("combine")
            planned == calculate_date_chunks(f_req.from_date, f_req.to_date,
                                             f_req.interval)
            yielding == {k \in 1..Len(calls) : Yielded(calls[k])}
            series == f_combine.series
        IN  /\ Len(calls) = Len(planned)
            /\ \A k \in 1..Len(calls) : calls[k].range = planned[k]
            /\ (f_combine.status = "raised") <=> (yielding = {})
            /\ f_combine.status = "returned" =>
                 /\ StrictlyIncreasing(series)
                 /\ Dates(series) = UNION {Dates(calls[k].rows) : k \in yielding}
                 /\ \A j \in 1..Len(series) :
                        series[j] = FirstSeen(calls, series[j].date)

\* a chunk failed, a later chunk yielded records, and the call returned
C7_Witness ==
    /\ CombineOver
    /\ f_combine.status = "returned"
    /\ \E k, k2 \in 1..Len(Calls("combine")) :
          /\ k < k2
          /\ ~Yielded(Calls("combine")[k])
          /\ Yielded(Calls("combine")[k2])

\* the Fetch Request Parameters a caller may not pass: from > to, to > today,
\* an interval outside the enumeration
InvalidRequest(req) ==
    \/ req.from_date > req.to_date
    \/ req.to_date > Today
    \/ req.interval \notin DOMAIN KITE_LIMITS

\* C8: for a request with from > to, to > today or an interval outside the
\* enumeration no upstream call is ever made (no historical_data call, no
\* token renewal), whatever entry point it came through.
C8_InvalidRequestMakesNoUpstreamCall ==
    InvalidRequest(f_req) =>
        /\ f_refreshes = 0
        /\ \A k \in 1..Len(f_log) : f_log[k].upstream = "none"

\* ------------------------------------------------- claims: strategy
\* the sum of the closes of the five bars ending at bar k: 5 * MA5[k]
Sum5(k) ==
    df_close[k] + df_close[k - 1] + df_close[k - 2] + df_close[k - 3]
    + df_close[k - 4]

\* the pass ends with `type` emitted at its bar, priced at the bar's close
\* with confidence 0.8, and the state at `trade`
Emits(type, trade) ==
    /\ Signal_Type' = type
    /\ Signal_Price' = df_close[s_i]
    /\ Signal_Confidence' = 8
    /\ in_trade' = trade

\* the pass ends with nothing emitted and the state as it was
Silent ==
    /\ Signal_Type' = ""
    /\ Signal_Price' = 0
    /\ Signal_Confidence' = 0
    /\ in_trade' = in_trade

\* C9 as claimed: a pass at bar i in IN_TRADE emits SELL (price close[i],
\* confidence 0.8) and leaves NOT_IN_TRADE exactly when the histogram is
\* negative and MA5[i] < MA5[i-1] <= MA5[i-2]; otherwise it emits nothing
\* and stays IN_TRADE.
C9_SellWhenFallingTwice ==
    [][ (s_pc = "decide" /\ in_trade) =>
            IF /\ step.MACD_Histogram < 0
               /\ Sum5(s_i) < Sum5(s_i - 1)
               /\ Sum5(s_i - 1) <= Sum5(s_i - 2)
            THEN Emits("SELL", FALSE)
            ELSE Silent ]_vars

\* C9 amended: a pass at bar i in IN_TRADE emits SELL (price close[i],
\* confidence 0.8) and leaves NOT_IN_TRADE exactly when the histogram is
\* negative and MA5[i] < MA5[i-1] and MA5[i-1] >= MA5[i-2]; otherwise it
\* emits nothing and stays IN_TRADE.
C9_SellWhenTurningDown ==
    [][ (s_pc = "decide" /\ in_trade) =>
            IF /\ step.MACD_Histogram < 0
               /\ Sum5(s_i) < Sum5(s_i - 1)
               /\ Sum5(s_i - 1) >= Sum5(s_i - 2)
            THEN Emits("SELL", FALSE)
            ELSE Silent ]_vars

\* a pass in IN_TRADE has just emitted SELL
C9_Witness ==
    /\ s_pc = "loop"
    /\ Signal_Type = "SELL"
    /\ Signal_Price = df_close[s_i - 1]
    /\ ~in_trade

\* C10: a pass at bar i >= 5 in NOT_IN_TRADE with an aligned hourly and an
\* aligned daily candle emits BUY (price close[i], confidence 0.8) and moves
\* to IN_TRADE iff MA5[i] > close[i-1] and bar i, the hourly and the daily
\* candle all close above their open, else it emits nothing; a pass without
\* an aligned candle emits nothing and changes no state.
C10_BuyWhenAboveAndAllGreen ==
    [][ /\ (s_pc = "loop" /\ s_pc' # "done") =>
              /\ s_i >= 5
              /\ IF has_1h' /\ has_1d'
                 THEN s_pc' = "decide" /\ in_trade' = in_trade
                 ELSE s_pc' = "loop" /\ s_i' = s_i + 1 /\ Silent
        /\ (s_pc = "decide" /\ ~in_trade) =>
              /\ has_1h /\ has_1d
              /\ s_i' = s_i + 1
              /\ IF /\ Sum5(s_i) > 5 * df_close[s_i - 1]
                    /\ df_close[s_i] > step.open
                    /\ step.current_1h_candle.close > step.current_1h_candle.open
                    /\ step.current_1d_candle.close > step.current_1d_candle.open
                 THEN Emits("BUY", TRUE)
                 ELSE Silent ]_vars

\* a pass in NOT_IN_TRADE with both candles aligned has just emitted BUY
C10_Witness ==
    /\ s_pc = "loop"
    /\ has_1h /\ has_1d
    /\ Signal_Type = "BUY"
    /\ Signal_Price = df_close[s_i - 1]
    /\ in_trade

\* C11: the signals of implement_strategy, in chronological order, strictly
\* alternate BUY, SELL, BUY, ... starting with BUY: the walk starts
\* NOT_IN_TRADE, after every step #BUY - #SELL is 0 or 1 (1 exactly when
\* IN_TRADE), a step emits at most one signal, a BUY only when NOT_IN_TRADE
\* and a SELL only when IN_TRADE, and never at a bar below 5.
C11_SignalsAlternate ==
    /\ [](/\ buy_signals - sell_signals \in {0, 1}
          /\ in_trade <=> (buy_signals - sell_signals = 1)
          /\ (buy_signals + sell_signals = 0) => ~in_trade)
    /\ [][ /\ buy_signals' \in {buy_signals, buy_signals + 1}
           /\ sell_signals' \in {sell_signals, sell_signals + 1}
           /\ (buy_signals' + sell_signals') <= (buy_signals + sell_signals) + 1
           /\ buy_signals' # buy_signals =>
                 /\ ~in_trade /\ in_trade'
                 /\ Signal_Type' = "BUY"
                 /\ s_i >= 5 /\ s_i' = s_i + 1
           /\ sell_signals' # sell_signals =>
                 /\ in_trade /\ ~in_trade'
                 /\ Signal_Type' = "SELL"
                 /\ s_i >= 5 /\ s_i' = s_i + 1
           /\ s_pc = "decide" =>
                 /\ (Signal_Type' = "BUY") <=> (buy_signals' # buy_signals)
                 /\ (Signal_Type' = "SELL") <=> (sell_signals' # sell_signals)
         ]_vars

\* the walk has emitted BUY, SELL and BUY again
C11_Witness ==
    /\ buy_signals = 2
    /\ sell_signals = 1
    /\ in_trade
    /\ Signal_Type = "BUY"

\* C12: when the 15-minute frame has fewer bars than a 26-period MACD needs
\* (its length, s_i at the return, is below 26), no bar of it has a MACD
\* value and the walk has emitted no signal.
C12_ShortSeriesEmitsNothing ==
    (s_pc = "done" /\ s_i < macd_slow) =>
        /\ \A k \in 0..(s_i - 1) : ~MACD_defined(k)
        /\ buy_signals + sell_signals = 0

\* ------------------------------------------------- claims: backtest
\* the bars of the frame whose Signal is v
BarsWith(v) == {j \in 1..Len(bt_df) : bt_df[j].Signal = v}

\* the close of the k-th bar, in order, whose Signal is v
NthClose(v, k) ==
    LET j == CHOOSE j \in BarsWith(v) :
                 Cardinality({j2 \in BarsWith(v) : j2 <= j}) = k
    IN  bt_df[j].close

\* C13: backtest_strategy pairs the k-th BUY close with the k-th SELL close
\* for k up to n = min(#BUY, #SELL), discarding what is unmatched:
\* total_trades = n, the return of trade k is (sell_k - buy_k) / buy_k,
\* winning_trades counts the pairs with sell_k > buy_k, losing_trades the
\* other pairs, and win_rate = 100 * winning / n (0 when n = 0).
C13_BacktestPairsIndexForIndex ==
    bt_pc = "returned" =>
        LET n == Min(Cardinality(BarsWith(1)), Cardinality(BarsWith(0 - 1)))
            r == bt_results
            won == {k \in 1..n : NthClose(0 - 1, k) > NthClose(1, k)}
        IN  /\ r.total_trades = n
            /\ Len(r.trade_returns) = n
            /\ \A k \in 1..n :
                  /\ r.trade_returns[k].den > 0
                  /\ r.trade_returns[k].num * NthClose(1, k)
                     = (NthClose(0 - 1, k) - NthClose(1, k)) * r.trade_returns[k].den
            /\ r.winning_trades = Cardinality(won)
            /\ r.losing_trades = n - Cardinality(won)
            /\ r.win_rate.den > 0
            /\ IF n = 0 THEN r.win_rate.num = 0
               ELSE r.win_rate.num * n = 100 * Cardinality(won) * r.win_rate.den

\* buys [100, 110] and sells [120, 100]: 2 trades, 1 winning, 1 losing,
\* returns 0.20 and -0.0909..., win rate 50%
C13_Witness ==
    /\ bt_pc = "returned"
    /\ closes_where(bt_df, 1) = <<100, 110>>
    /\ closes_where(bt_df, 0 - 1) = <<120, 100>>
    /\ bt_results.total_trades = 2
    /\ bt_results.winning_trades = 1
    /\ bt_results.losing_trades = 1
    /\ bt_results.trade_returns[1].num * 5 = bt_results.trade_returns[1].den
    /\ bt_results.trade_returns[2].num * 11 = 0 - bt_results.trade_returns[2].den
    /\ bt_results.win_rate.num = 50 * bt_results.win_rate.den

\* ------------------------------------------------- claims: store
\* the request just submitted passed the form and the credential checks
PassedChecks == st_answer' \notin {"form_invalid", "not_authenticated",
                                   "401_token_expired"}

\* the existence check finds nothing, whatever was saved, and a request that
\* passes the checks of its view is never answered from an existing file
NeverSuppressed ==
    /\ [](~load_data_from_json(st_files, st_req))
    /\ [][ (st_requests' # st_requests /\ PassedChecks) =>
               /\ st_answer' # "exists"
               /\ st_fetches' = st_fetches + 1 ]_vars

\* C14: after save_data_to_json the existence check of load_data_from_json
\* still finds nothing, so of requests with the same parameters every one
\* that passes the checks of its view fetches anew, and every save leaves one
\* artifact more in data_storage.
C14_IdenticalRequestsAlwaysRefetch ==
    /\ NeverSuppressed
    /\ [][ st_saves' # st_saves =>
               Cardinality(st_files') = Cardinality(st_files) + 1 ]_vars

\* ------------------------------------------------- claims: run
\* the rows of a table for the pair (symbol, strategy)
RowsFor(table, symbol) ==
    SelectSeq(table, LAMBDA r : r.symbol = symbol /\ r.strategy = strategy_name)

\* the rows of a table that are not of the symbol
RowsBeside(table, symbol) == SelectSeq(table, LAMBDA r : r.symbol # symbol)

\* the signal the frame of `file` holds at its bar k, as a stored row
SignalAt(file, symbol, k) ==
    [ symbol |-> symbol,
      strategy |-> strategy_name,
      signal_type |-> IF df_with_signals(file)[k].Signal = 1 THEN "BUY" ELSE "SELL",
      timestamp |-> index_min(file) + (k - 1),
      price |-> df_with_signals(file)[k].close ]

SignalBars(file) ==
    {k \in 1..Len(df_with_signals(file)) : df_with_signals(file)[k].Signal # 0}

\* the last call and the call before it
LastRun == r_log[Len(r_log)]
RunBefore == r_log[Len(r_log) - 1]

\* the stored outputs are exactly those of the run of `file` for `symbol`
StoredIsRunOf(file, symbol) ==
    LET stored == RowsFor(db_signals, symbol)
        key == {j \in 1..Len(db_backtests) :
                   /\ db_backtests[j].strategy = strategy_name
                   /\ db_backtests[j].symbol = symbol
                   /\ db_backtests[j].from_date = index_min(file)
                   /\ db_backtests[j].to_date = index_max(file)}
    IN  /\ Len(stored) = Cardinality(SignalBars(file))
        /\ \A k \in SignalBars(file) :
              Cardinality({j \in 1..Len(stored) :
                              stored[j] = SignalAt(file, symbol, k)}) = 1
        /\ Cardinality(key) = 1
        /\ \A j \in key :
              db_backtests[j].results_data = backtest_strategy(df_with_signals(file))

\* C15: after a successful run_strategy_on_file for a symbol the TradingSignal
\* rows of (symbol, strategy) are the signals of that run and no others, one
\* StrategyBacktest row exists for (strategy, symbol, from, to), the rows of
\* other symbols are as they were, and a run of the file just run (same
\* symbol) leaves both tables as they were.
C15_RerunReplaces ==
    /\ [](r_log # << >> /\ LastRun.success =>
              StoredIsRunOf(LastRun.file, LastRun.symbol))
    /\ [][ (r_log' # r_log /\ r_log'[Len(r_log')].success) =>
              LET run == r_log'[Len(r_log')]
              IN  /\ RowsBeside(db_signals', run.symbol)
                     = RowsBeside(db_signals, run.symbol)
                  /\ ( /\ r_log # << >>
                       /\ LastRun.success
                       /\ LastRun.file = run.file
                       /\ LastRun.symbol = run.symbol )
                     => /\ db_signals' = db_signals
                        /\ db_backtests' = db_backtests ]_vars

\* a file with signals has been run twice in a row for a symbol that had
\* signals of another file before
C15_Witness ==
    /\ Len(r_log) = 3
    /\ r_log[1].success /\ r_log[1].file = "feb"
    /\ LastRun.success /\ LastRun.file = "jan"
    /\ RunBefore = LastRun
    /\ r_log[1].symbol = LastRun.symbol
    /\ StoredIsRunOf("jan", LastRun.symbol)
    /\ Len(db_signals) = 3
    /\ Len(db_backtests) = 2

\* ------------------------------------------------- claims: planner, sizes
\* the limit of the interval of the call, read off the table
PlannedLimit ==
    IF p_interval \in DOMAIN KITE_LIMITS THEN KITE_LIMITS[p_interval] ELSE 60

\* a / b rounded up, for b > 0
CeilDiv(a, b) == (a + (b - 1)) \div b

\* C16: every chunk (start, end) calculate_date_chunks returns has
\* (end - start).days <= limit, the limit being the KITE_LIMITS entry of the
\* interval and 60 for an interval the table does not hold.
C16_ChunksWithinLimit ==
    p_pc = "planned" =>
        \A k \in 1..Len(p_chunks) :
            p_chunks[k][2] - p_chunks[k][1] <= PlannedLimit

\* a range of an unknown interval was split, and its first chunk spans the
\* whole default limit of 60 days
C16_Witness ==
    /\ p_pc = "planned"
    /\ p_interval = UnknownInterval
    /\ Len(p_chunks) >= 2
    /\ p_chunks[1][2] - p_chunks[1][1] = 60

C18_EstimateMatchesPlanner ==
    p_pc = "planned" =>
        LET estimate == estimate_api_calls(p_from, p_to, p_interval)
        IN  /\ estimate.chunks_needed = Len(p_chunks)
            /\ estimate.total_days = p_to - p_from
            /\ estimate.within_single_call = (p_to - p_from <= PlannedLimit)
            /\ estimate.within_single_call => estimate.chunks_needed = 1
            /\ estimate.requires_chunking = ~estimate.within_single_call

\* a range was split in three and the estimate for it is 3
C18_Witness ==
    /\ p_pc = "planned"
    /\ Len(p_chunks) = 3
    /\ estimate_api_calls(p_from, p_to, p_interval).chunks_needed = 3
    /\ estimate_api_calls(p_from, p_to, p_interval).requires_chunking

\* ------------------------------------------------- claims: twice
\* every call of the log was answered by the upstream API with records: the
\* synthetic generator was not used
FromUpstream(log) == \A k \in 1..Len(log) : log[k].upstream = "data"

\* the upstream API answered alike for the same range in the two logs
SameAnswers(log1, log2) ==
    \A j \in 1..Len(log1), k \in 1..Len(log2) :
        log1[j].range = log2[k].range => log1[j].rows = log2[k].rows

\* both calls are over
BothOver == a_run = 2 /\ f_pc = "done"

InFlight(s) == k_pc[s] \in {"refresh", "renewed"}

\* the service renewed the token and saved it
Refreshed(s) == k_pc[s] = "true" /\ k_session[s] # 0

AllReturned == \A s \in Services : k_pc[s] \in {"true", "false"}

NeverTwoInFlight == ~(InFlight(1) /\ InFlight(2))

\* the stored token and expiry are the pair one service saved
StoredByOneRefresh ==
    (\E s \in Services : Refreshed(s))
    => \E s \in Services :
          /\ Refreshed(s)
          /\ k_row.access_token = k_session[s]
          /\ k_row.token_expires_at = k_credentials[s].token_expires_at

\* once all have returned the row holds the token the upstream issued last
LatestTokenStored ==
    (AllReturned /\ k_issued > 0) => k_row.access_token = k_issued

\* C20: of two services on the one credential row that both find the token
\* expired, no two are inside the token refresh at one time, and the stored
\* access_token and token_expires_at are afterwards those one whole refresh
\* wrote, no refresh being lost.
C20_RefreshesSerialized ==
    /\ NeverTwoInFlight
    /\ StoredByOneRefresh
    /\ LatestTokenStored

\* ------------------------------------------------- claims: planner, again
\* C23: for every from <= to and every interval calculate_date_chunks
\* returns at least one chunk, every chunk has start <= end, and every chunk
\* after the first starts the day after the chunk before it ended, so the
\* chunks are in ascending order with no overlap and no gap between them.
C23_ChunksAreConsecutive ==
    (p_pc = "planned" /\ p_from <= p_to) =>
        /\ Len(p_chunks) >= 1
        /\ \A k \in 1..Len(p_chunks) : p_chunks[k][1] <= p_chunks[k][2]
        /\ \A k \in 2..Len(p_chunks) :
               p_chunks[k][1] = p_chunks[k - 1][2] + 1

\* a range was planned as three chunks, the last one shorter than the limit
C23_Witness ==
    /\ p_pc = "planned"
    /\ Len(p_chunks) = 3
    /\ p_chunks[2][1] = p_chunks[1][2] + 1
    /\ p_chunks[3][1] = p_chunks[2][2] + 1
    /\ p_chunks[3][2] - p_chunks[3][1] < PlannedLimit

\* what estimate_api_calls reports for the planned range
PlannedEstimate == estimate_api_calls(p_from, p_to, p_interval)

\* C30: for a range with from <= to, when estimate_api_calls reports
\* requires_chunking (that is, not within_single_call) its chunks_needed is
\* at least 2, and when it reports within_single_call its chunks_needed is 1.
C30_ChunkingMeansTwoOrMore ==
    (p_pc = "planned" /\ p_from <= p_to) =>
        /\ PlannedEstimate.requires_chunking = ~PlannedEstimate.within_single_call
        /\ PlannedEstimate.requires_chunking => PlannedEstimate.chunks_needed >= 2
        /\ PlannedEstimate.within_single_call => PlannedEstimate.chunks_needed = 1

\* ------------------------------------------------- claims: forms
\* the days from from_date to to_date of the bound data
FormDays == m_data.request.to_date - m_data.request.from_date

\* C21: DataFetchForm accepts a request for minute data of a known symbol
\* with from <= to <= today whose range is longer than the 60 days of one
\* API call: the ranges of 91 and of 184 days of the test script pass
\* is_valid().
C21_LongMinuteRangesAccepted ==
    ( /\ m_pc = "cleaned"
      /\ m_data.form = "DataFetchForm"
      /\ m_data.request.symbol \in TRADING_SYMBOLS
      /\ m_data.request.interval = "minute"
      /\ m_data.request.to_date <= Today
      /\ FormDays \in {MediumRange, LargeRange} )
    => m_valid

\* C29: a request StockDataFetchForm accepts has (to - from).days <=
\* KITE_LIMITS[interval], so estimate_api_calls reports within_single_call
\* for it and the fetch the index view starts takes the single-call path of
\* fetch_historical_data_smart, never the chunked one.
C29_IndexFetchIsSingleCall ==
    ( /\ m_pc = "cleaned"
      /\ m_data.form = "StockDataFetchForm"
      /\ m_valid )
    => /\ m_data.request.interval \in DOMAIN KITE_LIMITS
       /\ FormDays <= KITE_LIMITS[m_data.request.interval]
       /\ estimate_api_calls(m_data.request.from_date, m_data.request.to_date,
                             m_data.request.interval).within_single_call
       /\ f_pc = "single"
       /\ f_chunks = << >>

\* the index view took a valid request for 60 days of minute data, the
\* longest the form lets through, to the single-call path
C29_Witness ==
    /\ m_pc = "cleaned"
    /\ m_data.form = "StockDataFetchForm"
    /\ m_valid
    /\ m_data.request.interval = "minute"
    /\ FormDays = KITE_LIMITS["minute"]
    /\ f_pc = "single"

\* ------------------------------------------------- claims: listing
\* the .json entries of the directory that hold a readable JSON object
ReadableArtifacts ==
    { k \in 1..Len(l_dir) :
        l_dir[k].json /\ l_dir[k].content \in {"artifact", "legacy", "mistyped"} }

\* the generation time of a listed file, 0 when it has none
GeneratedAt(info) ==
    IF info.fetched_at.type = "str" THEN info.fetched_at.value ELSE 0

\* the listing holds one summary for each readable artifact, later
\* generation times first and the files without one last
ListedInOrder ==
    /\ l_out.status = "ok"
    /\ Len(l_out.files) = Cardinality(ReadableArtifacts)
    /\ { l_out.files[k].filename : k \in 1..Len(l_out.files) } = ReadableArtifacts
    /\ \A k \in 1..(Len(l_out.files) - 1) :
           GeneratedAt(l_out.files[k]) >= GeneratedAt(l_out.files[k + 1])

\* every bad file of the directory fails while it is read
BadFilesFailAtRead ==
    \A k \in 1..Len(l_dir) : l_dir[k].content # "mistyped"

\* the part of C22 that holds: a directory whose bad files all fail while
\* they are read is listed in full and in order
ListsPastReadFailures ==
    (l_pc = "done" /\ BadFilesFailAtRead) => ListedInOrder

\* C22: list_available_data_files returns one summary for every readable
\* .json artifact of the directory, ordered by generation time descending
\* with the artifacts without a generation time last, and a bad file never
\* keeps another file from being listed.
C22_ListingSkipsBadFiles ==
    l_pc = "done" => ListedInOrder

\* ------------------------------------------------- claims: pacing
\* the calls one of the two chunk loops made, in order
LoopCalls(by) == SelectSeq(f_log, LAMBDA c : c.by = by)

\* each loop fetched the planned chunks in the planner's order, one call for
\* one chunk
FetchedInPlannerOrder ==
    \A by \in {"combine", "batches"} :
        /\ Len(LoopCalls(by)) <= Len(f_chunks)
        /\ \A j \in 1..Len(LoopCalls(by)) : LoopCalls(by)[j].range = f_chunks[j]

\* a chunk fetch that another fetch of the same loop follows was followed by
\* time.sleep(1)
DelayBetweenFetches ==
    \A by \in {"combine", "batches"} :
        \A j \in 1..(Len(LoopCalls(by)) - 1) : LoopCalls(by)[j].slept

\* C24: in one reconciliation the chunks are fetched one at a time in the
\* planner's order, and between two consecutive chunk fetches the delay
\* time.sleep(1) is executed, whether the earlier fetch gave data, gave
\* nothing or raised.
C24_ChunkFetchesArePaced ==
    /\ FetchedInPlannerOrder
    /\ DelayBetweenFetches

\* ------------------------------------------------- claims: look-ahead
\* C25: two base series that agree on every record up to the end of fine
\* bar i give, through resample_data, calculate_indicators and
\* implement_strategy, the same signals up to and including bar i: the
\* decision at a bar reads no record later than the end of the bar.
C25_NoLookAhead ==
    Len(h_signals) = 2 =>
        \A k \in 0..h_agree : h_signals[1][k] = h_signals[2][k]

\* ------------------------------------------------- claims: call count
\* fetch_historical_data_smart has returned for a symbol of the table
SmartReturned == f_pc = "returned" /\ f_req.symbol \in TRADING_SYMBOLS

\* what estimate_api_calls reports for the arguments of the request
RequestEstimate ==
    estimate_api_calls(f_req.from_date, f_req.to_date, f_req.interval)

\* no range was fetched a second time
NoRangeFetchedTwice ==
    \A j, k \in 1..Len(f_log) : f_log[j].range = f_log[k].range => j = k

\* the part of C26 that holds: a call whose chunk loop got data from some
\* chunk fetched each planned chunk once
OneFetchPerChunkWithoutFallback ==
    (SmartReturned /\ LoopCalls("batches") = << >>) =>
        /\ Len(f_log) = RequestEstimate.chunks_needed
        /\ NoRangeFetchedTwice

\* C26: one call of fetch_historical_data_smart calls fetch_historical_data
\* exactly chunks_needed times, the number estimate_api_calls reports for
\* the same arguments: each planned chunk once and none a second time,
\* whatever the chunks give.
C26_OneFetchPerPlannedChunk ==
    SmartReturned =>
        /\ Len(f_log) = RequestEstimate.chunks_needed
        /\ NoRangeFetchedTwice

\* ------------------------------------------------- claims: signal counts
\* the bars of the frame of `file` with Signal = v: what implement_strategy
\* emitted
Emitted(file, v) ==
    Len(SelectSeq(df_with_signals(file), LAMBDA b : b.Signal = v))

\* the stored signals of a symbol of one type
Saved(symbol, type) ==
    Len(SelectSeq(db_signals,
                  LAMBDA r : /\ r.symbol = symbol
                             /\ r.strategy = strategy_name
                             /\ r.signal_type = type))

\* the stored backtest results of the last run
LastBacktest ==
    LET last == r_log[Len(r_log)]
        rows == SelectSeq(db_backtests,
                          LAMBDA r : /\ r.symbol = last.symbol
                                     /\ r.strategy = strategy_name
                                     /\ r.from_date = index_min(last.file)
                                     /\ r.to_date = index_max(last.file))
    IN  rows[Len(rows)].results_data

\* C27: in every strategy run the buy_signals and sell_signals
\* backtest_strategy returns, and the run stores, are the numbers of BUY and
\* SELL signals implement_strategy emitted and save_signals_to_db saved in
\* that run, a run whose only signal is one unmatched BUY included.
C27_BacktestCountsTheSignals ==
    (r_log # << >> /\ r_log[Len(r_log)].success) =>
        LET last == r_log[Len(r_log)]
        IN  /\ LastBacktest.buy_signals = Emitted(last.file, 1)
            /\ LastBacktest.sell_signals = Emitted(last.file, 0 - 1)
            /\ LastBacktest.buy_signals = Saved(last.symbol, "BUY")
            /\ LastBacktest.sell_signals = Saved(last.symbol, "SELL")

\* the part of C27 that holds: a run with a trade that was bought and sold
\* reports the counts of its signals
CountsOfClosedTrades ==
    ( /\ r_log # << >>
      /\ r_log[Len(r_log)].success
      /\ LastBacktest.total_trades > 0 ) =>
        LET last == r_log[Len(r_log)]
        IN  /\ LastBacktest.buy_signals = Saved(last.symbol, "BUY")
            /\ LastBacktest.sell_signals = Saved(last.symbol, "SELL")

\* ------------------------------------------------- claims: sample data
\* the record the last pass appended keeps low <= open <= high,
\* low <= close <= high and volume >= 0
OrderedRecord ==
    /\ g_record.low <= g_record.open
    /\ g_record.open <= g_record.high
    /\ g_record.low <= g_record.close
    /\ g_record.close <= g_record.high
    /\ g_record.volume >= 0

\* The part of C28 that holds: every record _generate_sample_data appends is
\* ordered (low <= open <= high, low <= close <= high) with volume >= 0.
SampleRecordsAreOrdered ==
    g_record # NoRecord => OrderedRecord

\* C28: every record _generate_sample_data produces, for any date range,
\* interval and sequence of random draws, is a valid OHLCV record:
\* low <= open <= high, low <= close <= high, volume >= 0, and open, high,
\* low and close strictly positive.
C28_SampleRecordsAreValid ==
    g_record # NoRecord =>
        /\ OrderedRecord
        /\ g_record.open > 0
        /\ g_record.high > 0
        /\ g_record.low > 0
        /\ g_record.close > 0
=============================================================================
